---- MODULE Spec2Model ----
(***************************************************************************)
(* Model of the image-censoring editor "mesen": the drawing session        *)
(* (useDrawing), the touch gesture machine (useTouch), the viewport        *)
(* transform (useZoomPan) and the ImageEditor event handlers that wire     *)
(* them together.                                                          *)
(*                                                                         *)
(* React semantics that the model keeps:                                   *)
(*  - an event handler reads the state of the last render (its closure)    *)
(*    and queues state updates; updater functions (prev => ...) are        *)
(*    applied in order to the queued state; the component re-renders after *)
(*    the handler, so every action below is one handler plus its render;   *)
(*  - refs are read and written in place; the values a hook returns from   *)
(*    refs (touch.currentMode, touch.isPinching, touch.isStationary) are   *)
(*    those of the last render, kept in touchView;                         *)
(*  - a setTimeout callback keeps the closure of the handler that armed it;*)
(*  - requestAnimationFrame callbacks wait in rafQueue and all run in the  *)
(*    next frame, before the render that follows it.                       *)
(*                                                                         *)
(* Numbers are exact rationals [n, d]; a length sqrt(s) is compared by its *)
(* square.  Time stamps (Date.now()) are kept as the time elapsed since    *)
(* the stamp, in steps of TimeUnit, saturated at AgeCap.                   *)
(***************************************************************************)
EXTENDS Integers, Sequences, FiniteSets, TLC

(* ------------------------- program constants -------------------------- *)

LONG_PRESS_DURATION == 500

DRAW_MODE_DELAY == 1000

MAX_SCALE == 5

CLICK_DISTANCE_THRESHOLD == 3

PINCH_DISTANCE_THRESHOLD == 7

PINCH_CENTER_THRESHOLD == 12

LINE_HIT_EXPANSION == 25

LINE_ZOOM_EXCLUSION_RADIUS == 100

DOUBLE_TAP_ANIMATION_DURATION == 200

MODE_CHECK_DELAY == 100

EARLY_MOVE_WINDOW == 200

DOUBLE_TAP_WINDOW == 300

DOUBLE_TAP_DISTANCE == 30

MOUSE_MOVE_THRESHOLD == 5

DEFAULT_LINE_THICKNESS == 10

\* THICKNESS_RATIOS = [0.002, 0.005, 0.01, 0.02, 0.05, 0.1], in thousandths
THICKNESS_RATIOS == <<2, 5, 10, 20, 50, 100>>

\* README: six thickness steps 2px, 5px, 10px, 20px, 40px, 60px
THICKNESS_OPTIONS == <<2, 5, 10, 20, 40, 60>>

(* ------------------------------ rationals ----------------------------- *)

Abs(i) == IF i < 0 THEN -i ELSE i

RECURSIVE GCD(_, _)
GCD(a, b) == IF b = 0 THEN a ELSE GCD(b, a % b)

\* the rational n/d in lowest terms with a positive denominator
Q(n, d) ==
  LET s == IF d < 0 THEN -1 ELSE 1
      g == GCD(Abs(n), Abs(d))
  IN  [n |-> (s * n) \div g, d |-> (s * d) \div g]

R(i) == [n |-> i, d |-> 1]

RAdd(a, b) == Q(a.n * b.d + b.n * a.d, a.d * b.d)

RSub(a, b) == Q(a.n * b.d - b.n * a.d, a.d * b.d)

RMul(a, b) == Q(a.n * b.n, a.d * b.d)

\* a / b, b # 0
RDiv(a, b) == Q(a.n * b.d, a.d * b.n)

RLt(a, b) == a.n * b.d < b.n * a.d

RLe(a, b) == a.n * b.d <= b.n * a.d

RMax(a, b) == IF RLt(a, b) THEN b ELSE a

RMin(a, b) == IF RLt(b, a) THEN b ELSE a

RAbs(a) == [n |-> Abs(a.n), d |-> a.d]

RSq(a) == RMul(a, a)

\* the values of JavaScript's number arithmetic that are not rationals
NaN == [n |-> 0, d |-> 0]

Infinity == [n |-> 1, d |-> 0]

IsNaN(a) == a.d = 0 /\ a.n = 0

IsInf(a) == a.d = 0 /\ a.n # 0

IsFinite(a) == a.d # 0

\* a / b of JavaScript: x/0 is an infinity, 0/0 is NaN
JsDiv(a, b) ==
  IF IsNaN(a) \/ IsNaN(b) THEN NaN
  ELSE IF IsInf(a) THEN (IF IsInf(b) THEN NaN
                         ELSE [n |-> IF b.n < 0 THEN -a.n ELSE a.n, d |-> 0])
  ELSE IF IsInf(b) THEN R(0)
  ELSE IF b.n = 0 THEN (IF a.n = 0 THEN NaN
                        ELSE [n |-> IF a.n < 0 THEN -1 ELSE 1, d |-> 0])
  ELSE RDiv(a, b)

\* a * b of JavaScript: Infinity * 0 is NaN
JsMul(a, b) ==
  IF IsNaN(a) \/ IsNaN(b) THEN NaN
  ELSE IF IsInf(a) \/ IsInf(b)
       THEN (IF a.n = 0 \/ b.n = 0 THEN NaN
             ELSE [n |-> IF (a.n < 0) = (b.n < 0) THEN 1 ELSE -1, d |-> 0])
  ELSE RMul(a, b)

\* a - b of JavaScript: Infinity - Infinity is NaN
JsSub(a, b) ==
  IF IsNaN(a) \/ IsNaN(b) THEN NaN
  ELSE IF IsInf(a) THEN (IF IsInf(b) /\ a.n = b.n THEN NaN ELSE a)
  ELSE IF IsInf(b) THEN [n |-> -b.n, d |-> 0]
  ELSE RSub(a, b)

\* a > b of JavaScript: false when either side is NaN
JsGt(a, b) == ~IsNaN(a) /\ ~IsNaN(b) /\ RLt(b, a)

\* Math.round of a non-negative rational: floor(a + 1/2)
Round(a) == (2 * a.n + a.d) \div (2 * a.d)

DOUBLE_TAP_ZOOM_FACTOR == Q(5, 2)

DEFAULT_MIN_SCALE == Q(1, 10)

AUTO_THICKNESS_SCREEN_RATIO == Q(2, 100)

\* tolerance 0.01 of the "at initial scale" test
INITIAL_SCALE_TOLERANCE == Q(1, 100)

(* ------------------------------ geometry ------------------------------ *)

Pt(x, y) == [x |-> R(x), y |-> R(y)]

PAdd(p, q) == [x |-> RAdd(p.x, q.x), y |-> RAdd(p.y, q.y)]

PSub(p, q) == [x |-> RSub(p.x, q.x), y |-> RSub(p.y, q.y)]

PScale(p, s) == [x |-> RMul(p.x, s), y |-> RMul(p.y, s)]

\* squared Euclidean distance; Math.sqrt(dx*dx + dy*dy) is compared by it
DistSq(p, q) == RAdd(RSq(RSub(p.x, q.x)), RSq(RSub(p.y, q.y)))

\* an absent value (null / undefined) is the empty sequence
None == <<>>

Some(v) == <<v>>

IsSome(o) == o # <<>>

Val(o) == o[1]

\* const value = ...; followed by the code that uses it: Rest is evaluated
\* with the value bound to its parameter
With(value, Rest(_)) == Rest(value)

\* the square of distanceToLineSegment(point, start, end)
distanceToLineSegmentSq(point, start, end) ==
  LET A == RSub(point.x, start.x)
      B == RSub(point.y, start.y)
      C == RSub(end.x, start.x)
      D == RSub(end.y, start.y)
      dot == RAdd(RMul(A, C), RMul(B, D))
      lenSq == RAdd(RMul(C, C), RMul(D, D))
  IN  With(IF lenSq # R(0) THEN RDiv(dot, lenSq) ELSE R(-1), LAMBDA param :
        DistSq(point,
               IF RLt(param, R(0)) THEN start
               ELSE IF RLt(R(1), param) THEN end
               ELSE [x |-> RAdd(start.x, RMul(param, C)),
                     y |-> RAdd(start.y, RMul(param, D))]))

(* --------------------------- thickness policy ------------------------- *)

MaxOf(a, b) == IF a > b THEN a ELSE b

getThicknessOptions(imageWidth, imageHeight) ==
  [i \in 1..Len(THICKNESS_RATIOS) |->
     Round(Q(THICKNESS_RATIOS[i] * MaxOf(imageWidth, imageHeight), 1000))]

getDefaultThickness(imageWidth, imageHeight) ==
  Round(Q(10 * MaxOf(imageWidth, imageHeight), 1000))

\* the largest option <= targetThickness, else the smallest option
RECURSIVE LargestOptionAtMost(_, _, _)
LargestOptionAtMost(options, i, targetThickness) ==
  IF i = 0 THEN options[1]
  ELSE IF RLe(R(options[i]), targetThickness) THEN options[i]
  ELSE LargestOptionAtMost(options, i - 1, targetThickness)

getDynamicThickness(imageWidth, imageHeight, targetThickness) ==
  LET options == getThicknessOptions(imageWidth, imageHeight)
  IN  LargestOptionAtMost(options, Len(options), targetThickness)

\* Array.prototype.indexOf, 0-based, -1 when absent
RECURSIVE IndexOfFrom(_, _, _)
IndexOfFrom(seq, v, i) ==
  IF i > Len(seq) THEN -1
  ELSE IF seq[i] = v THEN i - 1
  ELSE IndexOfFrom(seq, v, i + 1)

indexOf(seq, v) == IndexOfFrom(seq, v, 1)

\* the thickness changeLineThickness gives a stroke of currentThickness
nextThicknessMutant(thicknessOptions, currentThickness) ==
  LET currentIndex == indexOf(thicknessOptions, currentThickness)
      nextIndex == IF currentIndex + 1 >= Len(thicknessOptions)
                   THEN currentIndex ELSE currentIndex + 1
  IN  thicknessOptions[nextIndex + 1]

nextThickness(thicknessOptions, currentThickness) ==
  LET currentIndex == indexOf(thicknessOptions, currentThickness)
      nextIndex == (currentIndex + 1) % Len(thicknessOptions)
  IN  thicknessOptions[nextIndex + 1]

(* -------------------------------- state -------------------------------- *)

VARIABLES
  drawing,    \* useDrawing: the React state of the drawing session
  touch,      \* useTouch: hasMoved / lastTouchDistance (state) and its refs
  touchView,  \* what useTouch returned from its refs at the last render
  zoomPan,    \* useZoomPan: viewport state and refs
  editor,     \* ImageEditor: imageSize, lineThickness and its refs
  faceDetection, \* useFaceDetection: its React state, the lazy detector and
              \* the detectFaces calls in flight
  timers,     \* pending setTimeout callbacks
  rafQueue,   \* pending requestAnimationFrame callbacks, in request order
  pointer,    \* the user's side: fingers on the screen, mouse button
  gesture,    \* what the running touch gesture went through (observation only)
  obs         \* what the last event did (observation only)

vars ==
  <<drawing, touch, touchView, zoomPan, editor, faceDetection, timers, rafQueue,
    pointer, gesture, obs>>

\* findLineAtPoint's -1; selectedLineIndex === null
NoIndex == -1

Min2(a, b) == IF a < b THEN a ELSE b

mkLine(start, end, thickness) ==
  [start |-> start, end |-> end, thickness |-> thickness]

HiddenLoupe ==
  [visible |-> FALSE, position |-> Pt(0, 0), mode |-> "move", isStationary |-> FALSE]

\* useDrawing's useState initial values
DrawingInit ==
  [lines |-> <<>>, linesHistory |-> << <<>> >>, historyIndex |-> 0,
   currentLine |-> None, isDrawing |-> FALSE, drawStartPoint |-> None,
   selectedLineIndex |-> NoIndex, lineDragOffset |-> Pt(0, 0),
   lineBeforeDrag |-> None, drawingMode |-> "move", loupeState |-> HiddenLoupe,
   dirty |-> FALSE, threw |-> FALSE, saves |-> 0, cycles |-> 0]

(* ------------------------------ useDrawing ---------------------------- *)
(* Every operation takes c, the drawing state of the render whose closure  *)
(* the caller holds, and p, the state with the updates queued so far in    *)
(* the running event, and gives p with its own updates queued.  p.threw    *)
(* tells that the handler raised a TypeError: what it queued before stays. *)
(* p.dirty tells that a setter was given a fresh object or array, which    *)
(* makes React render even when the value reads the same.                  *)
(* p.saves and p.cycles count the saveToHistory and changeLineThickness    *)
(* calls of the running event.                                            *)

\* a plausible slip: the cursor is set from the closure instead of prev + 1
saveToHistoryAbsolute(c, p, newLines) ==
  [p EXCEPT
     !.linesHistory =
        Append(SubSeq(p.linesHistory, 1, Min2(c.historyIndex + 1, Len(p.linesHistory))),
               newLines),
     !.historyIndex = c.historyIndex + 1,
     !.lines = newLines,
     !.dirty = TRUE,
     !.saves = p.saves + 1]

saveToHistory(c, p, newLines) ==
  [p EXCEPT
     !.linesHistory =
        Append(SubSeq(p.linesHistory, 1, Min2(c.historyIndex + 1, Len(p.linesHistory))),
               newLines),
     !.historyIndex = p.historyIndex + 1,
     !.lines = newLines,
     !.dirty = TRUE,
     !.saves = p.saves + 1]

setLinesWithHistory(c, p, newLines) == saveToHistory(c, p, newLines)

resetLines(p) ==
  [p EXCEPT !.lines = <<>>, !.linesHistory = << <<>> >>, !.historyIndex = 0,
            !.dirty = TRUE]

\* forEach over lines keeping the first strictly closest stroke within its
\* hit radius thickness / 2 + LINE_HIT_EXPANSION; the result is 0-based
RECURSIVE findLineFrom(_, _, _, _, _)
findLineFrom(lines, point, i, closestLineIndex, closestSq) ==
  IF i > Len(lines) THEN closestLineIndex
  ELSE
    With(distanceToLineSegmentSq(point, lines[i].start, lines[i].end), LAMBDA distSq :
      LET hitRadius == RAdd(Q(lines[i].thickness, 2), R(LINE_HIT_EXPANSION))
          hit == /\ RLt(distSq, RSq(hitRadius))
                 /\ (closestLineIndex = NoIndex \/ RLt(distSq, closestSq))
      IN  IF hit THEN findLineFrom(lines, point, i + 1, i - 1, distSq)
          ELSE findLineFrom(lines, point, i + 1, closestLineIndex, closestSq))

findLineAtPoint(c, point) == findLineFrom(c.lines, point, 1, NoIndex, R(0))

isNearLine(c, point, threshold) ==
  \E i \in 1..Len(c.lines) :
    RLe(distanceToLineSegmentSq(point, c.lines[i].start, c.lines[i].end),
        R(threshold * threshold))

startDrawing(p, coords, thickness) ==
  [p EXCEPT !.isDrawing = TRUE, !.drawStartPoint = Some(coords),
            !.currentLine = Some(mkLine(coords, coords, thickness)),
            !.dirty = TRUE]

draw(c, p, coords) ==
  IF ~c.isDrawing \/ ~IsSome(c.drawStartPoint) \/ ~IsSome(c.currentLine) THEN p
  ELSE [p EXCEPT !.currentLine =
          Some(mkLine(Val(c.drawStartPoint), coords, Val(c.currentLine).thickness)),
          !.dirty = TRUE]

\* a plausible slip: the length filter dropped
stopDrawingUnfiltered(c, p) ==
  LET q == IF c.isDrawing /\ IsSome(c.currentLine) /\ IsSome(c.drawStartPoint)
           THEN saveToHistory(c, p, Append(c.lines, Val(c.currentLine)))
           ELSE p
  IN  [q EXCEPT !.isDrawing = FALSE, !.currentLine = None, !.drawStartPoint = None]

stopDrawing(c, p) ==
  LET commit ==
        /\ c.isDrawing /\ IsSome(c.currentLine) /\ IsSome(c.drawStartPoint)
        /\ RLt(R(CLICK_DISTANCE_THRESHOLD * CLICK_DISTANCE_THRESHOLD),
               DistSq(Val(c.currentLine).end, Val(c.currentLine).start))
      q == IF commit THEN saveToHistory(c, p, Append(c.lines, Val(c.currentLine)))
           ELSE p
  IN  [q EXCEPT !.isDrawing = FALSE, !.currentLine = None, !.drawStartPoint = None]

Midpoint(line) ==
  [x |-> RDiv(RAdd(line.start.x, line.end.x), R(2)),
   y |-> RDiv(RAdd(line.start.y, line.end.y), R(2))]

\* index is a valid 0-based index of c.lines (it comes from findLineAtPoint)
selectLine(c, p, index, coords) ==
  [p EXCEPT !.selectedLineIndex = index,
            !.lineBeforeDrag = Some(c.lines[index + 1]),
            !.lineDragOffset = PSub(coords, Midpoint(c.lines[index + 1])),
            !.dirty = TRUE]

dragLine(c, p, coords) ==
  IF c.selectedLineIndex = NoIndex THEN p
  ELSE IF c.selectedLineIndex + 1 > Len(c.lines) THEN [p EXCEPT !.threw = TRUE]
  ELSE
    LET line == c.lines[c.selectedLineIndex + 1]
        half == PScale(PSub(line.end, line.start), Q(1, 2))
        center == PSub(coords, c.lineDragOffset)
    IN  [p EXCEPT !.lines =
           [c.lines EXCEPT ![c.selectedLineIndex + 1] =
              mkLine(PSub(center, half), PAdd(center, half), line.thickness)],
           !.dirty = TRUE]

changeLineThickness(c, p, index, imageWidth, imageHeight) ==
  IF index + 1 > Len(c.lines) THEN [p EXCEPT !.threw = TRUE]
  ELSE
    LET newLines ==
          [c.lines EXCEPT ![index + 1].thickness =
             nextThickness(getThicknessOptions(imageWidth, imageHeight),
                           c.lines[index + 1].thickness)]
    IN  [saveToHistory(c, p, newLines) EXCEPT !.cycles = p.cycles + 1]

stopDraggingLine(c, p) ==
  LET moved ==
        /\ c.selectedLineIndex # NoIndex /\ IsSome(c.lineBeforeDrag)
        /\ c.selectedLineIndex + 1 <= Len(c.lines)
        /\ LET cur == c.lines[c.selectedLineIndex + 1]
               old == Val(c.lineBeforeDrag)
           IN  cur.start # old.start \/ cur.end # old.end
      q == IF moved THEN saveToHistory(c, p, c.lines) ELSE p
  IN  [q EXCEPT !.selectedLineIndex = NoIndex, !.lineBeforeDrag = None]

\* a plausible slip: the boundary guard dropped
undoUnguarded(c, p) ==
  LET newIndex == c.historyIndex - 1
  IN  IF newIndex + 1 > Len(c.linesHistory) \/ newIndex < 0
      THEN [p EXCEPT !.historyIndex = newIndex, !.threw = TRUE]
      ELSE [p EXCEPT !.historyIndex = newIndex, !.lines = c.linesHistory[newIndex + 1],
                     !.dirty = TRUE]

\* linesHistory[newIndex] of a cursor past the end is undefined: .map throws
\* after setHistoryIndex was queued
undo(c, p) ==
  IF c.historyIndex > 0
  THEN LET newIndex == c.historyIndex - 1
       IN  IF newIndex + 1 > Len(c.linesHistory)
           THEN [p EXCEPT !.historyIndex = newIndex, !.threw = TRUE]
           ELSE [p EXCEPT !.historyIndex = newIndex,
                          !.lines = c.linesHistory[newIndex + 1],
                          !.dirty = TRUE]
  ELSE p

deleteLine(c, p, index) ==
  saveToHistory(c, p, SubSeq(c.lines, 1, index) \o SubSeq(c.lines, index + 2, Len(c.lines)))

\* the snapshots addLinesIndividually pushes: one per added line, each the
\* one before it with that line appended
RECURSIVE PushEach(_, _, _)
PushEach(newHistory, currentLines, linesToAdd) ==
  IF linesToAdd = <<>> THEN newHistory
  ELSE LET next == Append(currentLines, Head(linesToAdd))
       IN  PushEach(Append(newHistory, next), next, Tail(linesToAdd))

addLinesIndividually(c, p, linesToAdd) ==
  LET newHistory == SubSeq(p.linesHistory, 1, Min2(c.historyIndex + 1, Len(p.linesHistory)))
      currentLines == IF newHistory = <<>> THEN <<>> ELSE newHistory[Len(newHistory)]
  IN  [p EXCEPT !.linesHistory = PushEach(newHistory, currentLines, linesToAdd),
                !.historyIndex = p.historyIndex + Len(linesToAdd),
                !.lines = p.lines \o linesToAdd,
                !.dirty = TRUE]

startAdjustMode(p, coords) ==
  [p EXCEPT !.drawingMode = "adjust",
            !.loupeState = [visible |-> TRUE, position |-> coords,
                            mode |-> "adjust", isStationary |-> TRUE],
            !.dirty = TRUE]

startDrawMode(p) ==
  [p EXCEPT !.drawingMode = "draw", !.loupeState.mode = "draw", !.dirty = TRUE]

updateLoupePosition(c, p, coords, isStationary) ==
  IF ~p.loupeState.visible THEN p
  ELSE [p EXCEPT !.loupeState =
          [visible |-> TRUE, position |-> coords, mode |-> c.drawingMode,
           isStationary |-> IF c.drawingMode = "adjust" THEN isStationary ELSE FALSE],
          !.dirty = TRUE]

resetMode(p) ==
  [p EXCEPT !.drawingMode = "move", !.loupeState = HiddenLoupe, !.dirty = TRUE]

\* the drawing state a render commits: the per-event marks are cleared
Commit(p) == [p EXCEPT !.dirty = FALSE, !.threw = FALSE, !.saves = 0, !.cycles = 0]

(* ------------------------- time, timers, frames ------------------------ *)

\* one step of the clock: the classification delay; every delay and window
\* of the program is a multiple of it
TimeUnit == MODE_CHECK_DELAY

\* Date.now() - stamp, saturated at cap (every test on it is "< cap" or less)
Older(age, cap) == IF age + TimeUnit >= cap THEN cap ELSE age + TimeUnit

\* the container's bounding rectangle: left = top = 0
Container == [width |-> 400, height |-> 300]

\* what a timer callback or a requested frame keeps of the render in which
\* its handler ran: the touch point, touch.currentMode as that render saw
\* it, the viewport and thickness inputs of getCanvasCoordinates and
\* calculateDynamicThickness, and whether onAdjustMode / onDrawMode were
\* passed to startTouch
NoCtx ==
  [touchCoords |-> Pt(0, 0), canvasCoords |-> Pt(0, 0), viewMode |-> "none",
   scale |-> R(1), position |-> Pt(0, 0), lineThickness |-> 0,
   imageWidth |-> 0, imageHeight |-> 0, callbacks |-> FALSE]

\* ref names a timer ref ("modeCheck", "adjustToDraw", "longPress"); held
\* tells that the ref still holds this timer's handle
mkTimer(ref, kind, delay, ctx) ==
  [ref |-> ref, kind |-> kind, remaining |-> delay, held |-> TRUE, ctx |-> ctx]

\* clearTimeout that cancels nothing
clearTimeoutNothing(tm, refSet, ref) == tm

\* clearTimeout(ref.current) when ref.current is truthy
clearTimeout(tm, refSet, ref) ==
  IF refSet THEN SelectSeq(tm, LAMBDA x : ~(x.ref = ref /\ x.held)) ELSE tm

\* ref.current = setTimeout(...): the ref lets go of the handle it held
setTimeout(tm, timer) ==
  Append([i \in 1..Len(tm) |->
            IF tm[i].ref = timer.ref THEN [tm[i] EXCEPT !.held = FALSE] ELSE tm[i]],
         timer)

(* -------------------------------- useTouch ----------------------------- *)

TouchInit ==
  [lastTouchDistance |-> None, hasMoved |-> FALSE,
   initialTouchPos |-> None, currentMode |-> "none",
   modeCheckTimerRef |-> FALSE, adjustToDrawTimerRef |-> FALSE,
   adjustModeStartAge |-> None, touchStartAge |-> LONG_PRESS_DURATION,
   lastTouchPosition |-> None, isStationary |-> FALSE,
   isPinching |-> FALSE, lastPinchCenter |-> None, gestureType |-> "none",
   initialPinchDistance |-> None, initialPinchCenter |-> None,
   lastTapAge |-> DOUBLE_TAP_WINDOW, lastTapPosition |-> None]

\* the ref-backed values useTouch returns, as a render reads them
ViewOf(t) ==
  [currentMode |-> t.currentMode, isPinching |-> t.isPinching,
   gestureType |-> t.gestureType, isStationary |-> t.isStationary]

\* getTouchDistance and the centre of two touches; the two fingers of the
\* model lie on one horizontal line, where the square root is exact
getTouchDistance(a, b) == RAbs(RSub(b.x, a.x))

getPinchCenter(touches) ==
  [x |-> RDiv(RAdd(touches[1].x, touches[2].x), R(2)),
   y |-> RDiv(RAdd(touches[1].y, touches[2].y), R(2))]

\* w is the state of the program with the updates of the running event
\* startTouch that leaves the mode and the timers alone when two fingers
\* are down
startTouchKeeping(w, touches, ctx) ==
  IF Len(touches) >= 2
  THEN [w EXCEPT !.t = [w.t EXCEPT !.isPinching = TRUE]]
  ELSE IF Len(touches) = 1 /\ ~w.t.isPinching
  THEN [w EXCEPT
          !.tm = setTimeout(w.tm, mkTimer("modeCheck", "modeCheck", MODE_CHECK_DELAY, ctx)),
          !.t = [w.t EXCEPT !.touchStartAge = 0,
                   !.initialTouchPos = Some(touches[1]),
                   !.hasMoved = FALSE, !.currentMode = "none",
                   !.lastTouchPosition = Some(touches[1]),
                   !.isStationary = FALSE, !.modeCheckTimerRef = TRUE]]
  ELSE w

startTouch(w, touches, ctx) ==
  LET tm == clearTimeout(clearTimeout(w.tm, w.t.modeCheckTimerRef, "modeCheck"),
                         w.t.adjustToDrawTimerRef, "adjustToDraw")
  IN  IF Len(touches) >= 2
      THEN LET distance == getTouchDistance(touches[1], touches[2])
               center == getPinchCenter(touches)
           IN  [w EXCEPT !.tm = tm,
                  !.t = [w.t EXCEPT !.isPinching = TRUE, !.currentMode = "move",
                           !.lastTouchDistance = Some(distance),
                           !.initialPinchDistance = Some(distance),
                           !.lastPinchCenter = Some(center),
                           !.initialPinchCenter = Some(center),
                           !.gestureType = "none"]]
      ELSE IF Len(touches) = 1 /\ ~w.t.isPinching
      THEN [w EXCEPT
              !.tm = setTimeout(tm, mkTimer("modeCheck", "modeCheck", MODE_CHECK_DELAY, ctx)),
              !.t = [w.t EXCEPT !.touchStartAge = 0,
                       !.initialTouchPos = Some(touches[1]),
                       !.hasMoved = FALSE, !.currentMode = "none",
                       !.lastTouchPosition = Some(touches[1]),
                       !.isStationary = FALSE, !.modeCheckTimerRef = TRUE]]
      ELSE [w EXCEPT !.tm = tm]

\* a plausible slip: a displacement above twice the click threshold switches
\* to 'move' whatever the mode and however long the gesture has lasted
moveTouchAnyMode(w, touches) ==
  IF w.t.isPinching \/ Len(touches) # 1 THEN w
  ELSE IF /\ IsSome(w.t.initialTouchPos)
          /\ RLt(R((CLICK_DISTANCE_THRESHOLD * 2) * (CLICK_DISTANCE_THRESHOLD * 2)),
                 DistSq(touches[1], Val(w.t.initialTouchPos)))
  THEN [w EXCEPT
          !.tm = clearTimeout(w.tm, w.t.adjustToDrawTimerRef, "adjustToDraw"),
          !.t = [w.t EXCEPT !.currentMode = "move", !.hasMoved = TRUE,
                   !.adjustToDrawTimerRef = FALSE,
                   !.lastTouchPosition = Some(touches[1])]]
  ELSE [w EXCEPT !.t.lastTouchPosition = Some(touches[1])]

\* moveTouch that keeps the draw timer when the finger moves
moveTouchKeepingTimer(w, touches) ==
  IF w.t.isPinching \/ Len(touches) # 1 THEN w
  ELSE
    LET currentPos == touches[1]
        t == w.t
    IN  IF t.currentMode = "adjust" /\ IsSome(t.lastTouchPosition)
        THEN [w EXCEPT
                !.t = [t EXCEPT
                         !.isStationary =
                            RLe(DistSq(currentPos, Val(t.lastTouchPosition)), R(1)),
                         !.lastTouchPosition = Some(currentPos)]]
        ELSE [w EXCEPT !.t.lastTouchPosition = Some(currentPos)]

moveTouch(w, touches) ==
  IF w.t.isPinching \/ Len(touches) # 1 THEN w
  ELSE
    LET currentPos == touches[1]
        t == w.t
        early ==
          /\ t.currentMode = "adjust" /\ IsSome(t.adjustModeStartAge)
          /\ Val(t.adjustModeStartAge) < EARLY_MOVE_WINDOW
          /\ IsSome(t.initialTouchPos)
          /\ RLt(R((CLICK_DISTANCE_THRESHOLD * 2) * (CLICK_DISTANCE_THRESHOLD * 2)),
                 DistSq(currentPos, Val(t.initialTouchPos)))
    IN  IF early
        THEN [w EXCEPT
                !.tm = clearTimeout(w.tm, t.adjustToDrawTimerRef, "adjustToDraw"),
                !.t = [t EXCEPT !.currentMode = "move", !.hasMoved = TRUE,
                         !.adjustToDrawTimerRef = FALSE,
                         !.lastTouchPosition = Some(currentPos)]]
        ELSE IF t.currentMode = "adjust" /\ IsSome(t.lastTouchPosition)
        THEN
          LET wasStationary == t.isStationary
              nowStationary == RLe(DistSq(currentPos, Val(t.lastTouchPosition)), R(1))
              restart == ~wasStationary /\ nowStationary /\ ~t.adjustToDrawTimerRef
              stop == wasStationary /\ ~nowStationary /\ t.adjustToDrawTimerRef
          IN  [w EXCEPT
                 !.tm = IF restart
                        THEN setTimeout(w.tm, mkTimer("adjustToDraw", "adjustToDrawMove",
                                                      DRAW_MODE_DELAY, NoCtx))
                        ELSE IF stop THEN clearTimeout(w.tm, TRUE, "adjustToDraw")
                        ELSE w.tm,
                 !.t = [t EXCEPT !.isStationary = nowStationary,
                          !.adjustToDrawTimerRef =
                             IF restart THEN TRUE ELSE IF stop THEN FALSE ELSE @,
                          !.lastTouchPosition = Some(currentPos)]]
        ELSE [w EXCEPT !.t.lastTouchPosition = Some(currentPos)]

\* endTouch that leaves the timers pending and the session as it is
endTouchKeeping(w, touches) ==
  IF Len(touches) = 0
  THEN [w EXCEPT
          !.t = [w.t EXCEPT !.isPinching = FALSE, !.lastTouchDistance = None,
                   !.lastPinchCenter = None, !.gestureType = "none",
                   !.initialPinchDistance = None, !.initialPinchCenter = None]]
  ELSE IF Len(touches) = 1 /\ w.t.isPinching
  THEN [w EXCEPT !.t = [w.t EXCEPT !.lastTouchDistance = None, !.lastPinchCenter = None]]
  ELSE w

endTouch(w, touches) ==
  IF Len(touches) = 0
  THEN [w EXCEPT
          !.tm = clearTimeout(clearTimeout(w.tm, w.t.modeCheckTimerRef, "modeCheck"),
                              w.t.adjustToDrawTimerRef, "adjustToDraw"),
          !.t = [w.t EXCEPT !.isPinching = FALSE, !.lastTouchDistance = None,
                   !.lastPinchCenter = None, !.gestureType = "none",
                   !.initialPinchDistance = None, !.initialPinchCenter = None,
                   !.currentMode = "none", !.initialTouchPos = None,
                   !.hasMoved = FALSE, !.lastTouchPosition = None,
                   !.isStationary = FALSE, !.adjustModeStartAge = None]]
  ELSE IF Len(touches) = 1 /\ w.t.isPinching
  THEN [w EXCEPT !.t = [w.t EXCEPT !.lastTouchDistance = None, !.lastPinchCenter = None]]
  ELSE w

\* c is the closure of the render: hasMoved is state, the start time a ref
isQuickTap(c, w) == w.t.touchStartAge < LONG_PRESS_DURATION /\ ~c.t.hasMoved

isDoubleTap(w, position) ==
  /\ IsSome(w.t.lastTapPosition) /\ w.t.lastTapAge < DOUBLE_TAP_WINDOW
  /\ RLt(DistSq(position, Val(w.t.lastTapPosition)),
         R(DOUBLE_TAP_DISTANCE * DOUBLE_TAP_DISTANCE))

\* a plausible slip: the pair is not consumed, the second tap is recorded
checkDoubleTapKeeping(w, position) ==
  [w EXCEPT !.t = [w.t EXCEPT !.lastTapAge = 0, !.lastTapPosition = Some(position)]]

\* the state after checkDoubleTap(position); its result is isDoubleTap
checkDoubleTap(w, position) ==
  IF isDoubleTap(w, position)
  THEN [w EXCEPT !.t = [w.t EXCEPT !.lastTapAge = DOUBLE_TAP_WINDOW,
                          !.lastTapPosition = None]]
  ELSE [w EXCEPT !.t = [w.t EXCEPT !.lastTapAge = 0, !.lastTapPosition = Some(position)]]

(* ------------------------------- useZoomPan ---------------------------- *)

ZoomPanInit ==
  [scale |-> R(1), position |-> Pt(0, 0), isInitialized |-> FALSE,
   isDragging |-> FALSE, dragStart |-> Pt(0, 0), isAnimating |-> FALSE,
   initialScaleRef |-> R(1), initialPositionRef |-> Pt(0, 0),
   scaleRef |-> R(1), positionRef |-> Pt(0, 0), animationRef |-> FALSE,
   dirty |-> FALSE]

easeOutCubic(t) == RSub(R(1), RMul(RSub(R(1), t), RMul(RSub(R(1), t), RSub(R(1), t))))

\* the image point under a client point, for a viewport (scale, position)
CanvasPoint(client, scale, position) ==
  [x |-> RDiv(RSub(client.x, position.x), scale),
   y |-> RDiv(RSub(client.y, position.y), scale)]

\* c.z is the viewport of the render whose closure the caller holds
getCanvasCoordinates(c, client) == CanvasPoint(client, c.z.scale, c.z.position)

\* a requested animation frame callback
mkFrame(kind, point, factor, init) ==
  [kind |-> kind, point |-> point, factor |-> factor, init |-> init,
   startScale |-> R(1), startPosition |-> Pt(0, 0),
   targetScale |-> R(1), targetPosition |-> Pt(0, 0),
   elapsed |-> 0, held |-> FALSE, fresh |-> FALSE]

startDragging(c, w, client) ==
  [w EXCEPT !.z = [w.z EXCEPT !.dragStart = PSub(client, c.z.position),
                     !.isDragging = TRUE, !.dirty = TRUE]]

drag(c, w, client) ==
  IF ~c.z.isDragging THEN w
  ELSE [w EXCEPT !.rq = Append(w.rq, mkFrame("drag", PSub(client, c.z.dragStart),
                                            R(1), FALSE))]

stopDragging(w) == [w EXCEPT !.z.isDragging = FALSE]

\* zoomSpeed = min(|delta| * 0.001, 0.1)
scaleFactor(delta) ==
  LET zoomSpeed == RMin(Q(Abs(delta), 1000), Q(1, 10))
  IN  IF delta > 0 THEN RSub(R(1), zoomSpeed) ELSE RAdd(R(1), zoomSpeed)

handleWheel(c, w, delta, client) ==
  [w EXCEPT !.rq = Append(w.rq, mkFrame("wheel", client, scaleFactor(delta),
                                       c.z.isInitialized))]

handlePinchZoom(c, w, newScale, center) ==
  [w EXCEPT !.rq = Append(w.rq, mkFrame("pinch", center, newScale, c.z.isInitialized))]

pan(w, delta) == [w EXCEPT !.rq = Append(w.rq, mkFrame("pan", delta, R(1), FALSE))]

\* a plausible slip: no lower or upper limit
clampScaleFree(z, init, s) == s

\* max(minScale, min(MAX_SCALE, s)) of the wheel and pinch callbacks
clampScale(z, init, s) ==
  LET minScale == IF init THEN z.initialScaleRef ELSE DEFAULT_MIN_SCALE
  IN  RMax(minScale, RMin(R(MAX_SCALE), s))

\* a plausible slip: the new offset divides by the new scale
zoomAroundSwapped(z, point, newScale) ==
  LET canvas == CanvasPoint(point, newScale, z.positionRef)
  IN  [z EXCEPT !.scale = newScale,
                !.position = PSub(point, PScale(canvas, z.scaleRef)),
                !.dirty = TRUE]

\* setScale(newScale); setPosition(point - canvasPoint * newScale), the
\* canvas point read through scaleRef and positionRef
zoomAround(z, point, newScale) ==
  LET canvas == CanvasPoint(point, z.scaleRef, z.positionRef)
  IN  [z EXCEPT !.scale = newScale,
                !.position = PSub(point, PScale(canvas, newScale)),
                !.dirty = TRUE]

\* the fit effect: runs after a render with an image and no fit yet; the
\* container is the rectangle getBoundingClientRect() returns at that moment
fitToContainer(z, imageSize, container) ==
  IF imageSize.width > 0 /\ ~z.isInitialized
  THEN LET imgAspect == JsDiv(R(imageSize.width), R(imageSize.height))
           containerAspect == JsDiv(R(container.width), R(container.height))
       IN  With(IF JsGt(imgAspect, containerAspect)
                THEN JsDiv(R(container.width), R(imageSize.width))
                ELSE JsDiv(R(container.height), R(imageSize.height)),
                LAMBDA initialScale :
           With([x |-> JsDiv(JsSub(R(container.width),
                                   JsMul(R(imageSize.width), initialScale)), R(2)),
                 y |-> JsDiv(JsSub(R(container.height),
                                   JsMul(R(imageSize.height), initialScale)), R(2))],
                LAMBDA initialPos :
             [z EXCEPT !.initialScaleRef = initialScale,
                       !.initialPositionRef = initialPos,
                       !.scale = initialScale, !.position = initialPos,
                       !.isInitialized = TRUE, !.dirty = TRUE]))
  ELSE z

cancelAnimationFrame(rq, refSet) ==
  IF refSet THEN SelectSeq(rq, LAMBDA f : ~(f.kind = "animate" /\ f.held)) ELSE rq

\* a plausible slip: the flag is set and no callback is requested
animateToTargetUnrequested(w, targetScale, targetPosition) ==
  [w EXCEPT !.z = [w.z EXCEPT !.isAnimating = TRUE]]

animateToTarget(w, targetScale, targetPosition) ==
  LET frame == [mkFrame("animate", Pt(0, 0), R(1), FALSE) EXCEPT
                  !.startScale = w.z.scaleRef, !.startPosition = w.z.positionRef,
                  !.targetScale = targetScale, !.targetPosition = targetPosition,
                  !.held = TRUE]
      rq == cancelAnimationFrame(w.rq, w.z.animationRef)
  IN  [w EXCEPT
         !.rq = Append([i \in 1..Len(rq) |-> [rq[i] EXCEPT !.held = FALSE]], frame),
         !.z = [w.z EXCEPT !.isAnimating = TRUE, !.animationRef = TRUE]]

\* a plausible slip: the reset does not wait for the animation in flight
resetWithAnimationAlways(c, w) ==
  IF c.z.isInitialized
  THEN animateToTarget(w, w.z.initialScaleRef, w.z.initialPositionRef)
  ELSE w

resetWithAnimation(c, w) ==
  IF c.z.isInitialized /\ ~c.z.isAnimating
  THEN animateToTarget(w, w.z.initialScaleRef, w.z.initialPositionRef)
  ELSE w

atInitialScale(z) ==
  RLt(RAbs(RSub(z.scaleRef, z.initialScaleRef)), INITIAL_SCALE_TOLERANCE)

\* a plausible slip: the zoom target is computed for the container centre
doubleTapTargetCentred(z, tap) ==
  LET targetScale == RMul(z.initialScaleRef, DOUBLE_TAP_ZOOM_FACTOR)
      centre == [x |-> Q(Container.width, 2), y |-> Q(Container.height, 2)]
      canvas == CanvasPoint(tap, z.scaleRef, z.positionRef)
  IN  [scale |-> targetScale, position |-> PSub(centre, PScale(canvas, targetScale))]

\* the target of the zoom-in half of handleDoubleTap
doubleTapTarget(z, tap) ==
  LET targetScale == RMul(z.initialScaleRef, DOUBLE_TAP_ZOOM_FACTOR)
      canvas == CanvasPoint(tap, z.scaleRef, z.positionRef)
  IN  [scale |-> targetScale, position |-> PSub(tap, PScale(canvas, targetScale))]

\* handleDoubleTap without the way back: it zooms in whatever the scale is
handleDoubleTapZoomOnly(c, w, tap) ==
  IF c.z.isAnimating THEN w
  ELSE animateToTarget(w, doubleTapTarget(w.z, tap).scale, doubleTapTarget(w.z, tap).position)

handleDoubleTap(c, w, tap) ==
  IF c.z.isAnimating THEN w
  ELSE IF atInitialScale(w.z)
  THEN animateToTarget(w, doubleTapTarget(w.z, tap).scale, doubleTapTarget(w.z, tap).position)
  ELSE animateToTarget(w, w.z.initialScaleRef, w.z.initialPositionRef)

\* one requested callback, run in a frame
runFrame(w, f) ==
  IF f.kind = "drag"
  THEN [w EXCEPT !.z = [w.z EXCEPT !.position = f.point, !.dirty = TRUE]]
  ELSE IF f.kind = "pan"
  THEN [w EXCEPT !.z = [w.z EXCEPT !.position = PAdd(w.z.position, f.point),
                          !.dirty = TRUE]]
  ELSE IF f.kind = "wheel"
  THEN [w EXCEPT !.z = zoomAround(w.z, f.point,
                                  clampScale(w.z, f.init, RMul(w.z.scaleRef, f.factor)))]
  ELSE IF f.kind = "pinch"
  THEN [w EXCEPT !.z = zoomAround(w.z, f.point, clampScale(w.z, f.init, f.factor))]
  ELSE
    LET progress == RMin(Q(f.elapsed, DOUBLE_TAP_ANIMATION_DURATION), R(1))
        easedProgress == easeOutCubic(progress)
        currentScale ==
          RAdd(f.startScale, RMul(RSub(f.targetScale, f.startScale), easedProgress))
        currentPosition ==
          PAdd(f.startPosition,
               PScale(PSub(f.targetPosition, f.startPosition), easedProgress))
        z == [w.z EXCEPT !.scale = currentScale, !.position = currentPosition,
                         !.dirty = TRUE]
    IN  IF RLt(progress, R(1))
        THEN [w EXCEPT !.z = [z EXCEPT !.animationRef = TRUE],
                       !.rq = Append([i \in 1..Len(w.rq) |->
                                        [w.rq[i] EXCEPT !.held = FALSE]],
                                     [f EXCEPT !.held = TRUE, !.fresh = TRUE])]
        ELSE [w EXCEPT !.z = [z EXCEPT !.isAnimating = FALSE, !.animationRef = FALSE]]

RECURSIVE runFrames(_, _)
runFrames(w, frames) ==
  IF frames = <<>> THEN w
  ELSE runFrames(runFrame(w, Head(frames)), Tail(frames))

(* ------------------------------ ImageEditor ---------------------------- *)

EditorInit ==
  [imageSize |-> [width |-> 0, height |-> 0], lineThickness |-> DEFAULT_LINE_THICKNESS,
   initialMousePos |-> None, mouseStartAge |-> LONG_PRESS_DURATION,
   mouseHasMoved |-> FALSE, longPressTimerRef |-> FALSE, initialTouchRef |-> None,
   dirty |-> FALSE]

\* useFaceDetection after mount; detector is FaceDetectorLazy's loaded
\* detector, calls the detectFaces calls that have not returned
FaceDetectionInit ==
  [isDetecting |-> FALSE, isScanning |-> FALSE, showError |-> FALSE,
   showNoFace |-> FALSE, isAiDetectionLine |-> FALSE, detector |-> FALSE,
   calls |-> <<>>]

\* the React state of useFaceDetection
HookState(f) == [f EXCEPT !.detector = FALSE, !.calls = <<>>]

\* the values the handlers of the last render closed over
Closure == [d |-> drawing, tv |-> touchView, t |-> touch, z |-> zoomPan, e |-> editor]

\* the state an event starts from
World ==
  [d |-> drawing, t |-> touch, z |-> zoomPan, e |-> editor, f |-> faceDetection,
   tm |-> timers, rq |-> rafQueue]

mkCtx(c, touchCoords, canvasCoords, callbacks) ==
  [touchCoords |-> touchCoords, canvasCoords |-> canvasCoords,
   viewMode |-> c.tv.currentMode, scale |-> c.z.scale, position |-> c.z.position,
   lineThickness |-> c.e.lineThickness, imageWidth |-> c.e.imageSize.width,
   imageHeight |-> c.e.imageSize.height, callbacks |-> callbacks]

calculateDynamicThickness(ctx) ==
  IF ctx.imageWidth = 0 THEN ctx.lineThickness
  ELSE getDynamicThickness(ctx.imageWidth, ctx.imageHeight,
         RDiv(RMul(R(Container.width), AUTO_THICKNESS_SCREEN_RATIO), ctx.scale))

setLineThickness(w, thickness) == [w EXCEPT !.e.lineThickness = thickness]

onAdjustMode(w, ctx) ==
  IF ctx.viewMode = "move" THEN w
  ELSE [setLineThickness(w, calculateDynamicThickness(ctx)) EXCEPT
          !.d = startAdjustMode(w.d, ctx.touchCoords)]

onDrawMode(w, ctx) ==
  IF ctx.viewMode = "move" THEN w
  ELSE [setLineThickness(w, calculateDynamicThickness(ctx)) EXCEPT
          !.d = startDrawing(startDrawMode(w.d),
                             CanvasPoint(ctx.touchCoords, ctx.scale, ctx.position),
                             calculateDynamicThickness(ctx))]

\* the callback of the draw timer armed by the classification callback
adjustToDrawCallback(w, ctx) ==
  IF w.t.currentMode = "adjust" /\ w.t.isStationary /\ ctx.callbacks
  THEN onDrawMode([w EXCEPT !.t.currentMode = "draw"], ctx)
  ELSE w

\* the callback of the draw timer re-armed by moveTouch
adjustToDrawMoveCallback(w) ==
  IF w.t.currentMode = "adjust" /\ w.t.isStationary
  THEN [w EXCEPT !.t.currentMode = "draw"]
  ELSE w

\* a plausible slip: the distance is taken from the last position to itself
movedAtCheckSelf(t) ==
  /\ IsSome(t.lastTouchPosition)
  /\ RLt(R(CLICK_DISTANCE_THRESHOLD * CLICK_DISTANCE_THRESHOLD),
         DistSq(Val(t.lastTouchPosition), Val(t.lastTouchPosition)))

\* distance > CLICK_DISTANCE_THRESHOLD in the classification callback
movedAtCheck(t) ==
  /\ IsSome(t.lastTouchPosition)
  /\ RLt(R(CLICK_DISTANCE_THRESHOLD * CLICK_DISTANCE_THRESHOLD),
         DistSq(Val(t.lastTouchPosition), Val(t.initialTouchPos)))

\* the callback of the 100 ms classification timer
modeCheckCallback(w, ctx) ==
  IF w.t.currentMode = "none" /\ ~w.t.isPinching /\ IsSome(w.t.initialTouchPos)
  THEN IF movedAtCheck(w.t)
       THEN [w EXCEPT !.t = [w.t EXCEPT !.currentMode = "move", !.hasMoved = TRUE]]
       ELSE LET w1 == [w EXCEPT !.t = [w.t EXCEPT !.currentMode = "adjust",
                                         !.adjustModeStartAge = Some(0)]]
            IN  IF ctx.callbacks
                THEN With(onAdjustMode(w1, ctx), LAMBDA w2 :
                       [w2 EXCEPT
                          !.t = [w2.t EXCEPT !.isStationary = TRUE,
                                   !.adjustToDrawTimerRef = TRUE],
                          !.tm = setTimeout(w2.tm, mkTimer("adjustToDraw", "adjustToDraw",
                                                          DRAW_MODE_DELAY, ctx))])
                ELSE w1
  ELSE w

\* the callback of the mouse long-press timer
longPressCallback(w, ctx) ==
  IF ~w.e.mouseHasMoved
  THEN [setLineThickness(w, calculateDynamicThickness(ctx)) EXCEPT
          !.d = startDrawing(w.d, ctx.canvasCoords, calculateDynamicThickness(ctx))]
  ELSE w

handleImageLoad(w, width, height) ==
  [w EXCEPT !.e = [w.e EXCEPT !.imageSize = [width |-> width, height |-> height],
                     !.lineThickness = getDefaultThickness(width, height),
                     !.dirty = TRUE]]

handleTouchStart(c, w, touches) ==
  IF c.z.isAnimating THEN w
  ELSE
    LET w1 == [w EXCEPT !.f.isAiDetectionLine = FALSE, !.d = resetMode(w.d)]
    IN  IF Len(touches) >= 2 THEN startTouch(w1, touches, NoCtx)
        ELSE
          LET touchCoords == touches[1]
              canvasCoords == getCanvasCoordinates(c, touchCoords)
              w2 == [w1 EXCEPT !.e.initialTouchRef = Some(touchCoords)]
          IN  With(findLineAtPoint(c.d, canvasCoords), LAMBDA touchedLineIndex :
                IF touchedLineIndex # NoIndex
                THEN startTouch([w2 EXCEPT !.d = selectLine(c.d, w2.d, touchedLineIndex,
                                                            canvasCoords)],
                                touches, mkCtx(c, touchCoords, canvasCoords, FALSE))
                ELSE startTouch(w2, touches, mkCtx(c, touchCoords, canvasCoords, TRUE)))

\* a plausible slip: the distance change is compared with the centre
\* displacement itself, without the margin of 1.5
classifyPinchEven(t, touches) ==
  IF t.gestureType = "none" /\ IsSome(t.initialPinchDistance)
     /\ Val(t.initialPinchDistance) # R(0) /\ IsSome(t.initialPinchCenter)
  THEN LET distanceChange ==
             RAbs(RSub(getTouchDistance(touches[1], touches[2]),
                       Val(t.initialPinchDistance)))
           centerChangeSq == DistSq(getPinchCenter(touches), Val(t.initialPinchCenter))
       IN  IF \/ RLt(R(PINCH_DISTANCE_THRESHOLD), distanceChange)
              \/ RLt(R(PINCH_CENTER_THRESHOLD * PINCH_CENTER_THRESHOLD), centerChangeSq)
           THEN IF RLt(centerChangeSq, RSq(distanceChange)) THEN "pinch" ELSE "pan"
           ELSE "none"
  ELSE t.gestureType

\* the gesture type after the classification step shared by getPinchScale
\* and getPinchCenterDelta; centres of the model move along one axis
classifyPinch(t, touches) ==
  IF t.gestureType = "none" /\ IsSome(t.initialPinchDistance)
     /\ Val(t.initialPinchDistance) # R(0) /\ IsSome(t.initialPinchCenter)
  THEN LET distanceChange ==
             RAbs(RSub(getTouchDistance(touches[1], touches[2]),
                       Val(t.initialPinchDistance)))
           centerChangeSq == DistSq(getPinchCenter(touches), Val(t.initialPinchCenter))
       IN  IF \/ RLt(R(PINCH_DISTANCE_THRESHOLD), distanceChange)
              \/ RLt(R(PINCH_CENTER_THRESHOLD * PINCH_CENTER_THRESHOLD), centerChangeSq)
           THEN IF RLt(RMul(Q(9, 4), centerChangeSq), RSq(distanceChange))
                THEN "pinch" ELSE "pan"
           ELSE "none"
  ELSE t.gestureType

\* the pinch branch of handleTouchMove: getPinchScale, handlePinchZoom,
\* getPinchCenterDelta, pan
pinchMove(c, w, touches) ==
  LET scaling == Len(touches) = 2 /\ IsSome(c.t.lastTouchDistance) /\ w.t.isPinching
      currentDistance == getTouchDistance(touches[1], touches[2])
      pinchScale == RDiv(currentDistance, Val(c.t.lastTouchDistance))
  IN
  With(IF scaling THEN classifyPinch(w.t, touches) ELSE w.t.gestureType, LAMBDA type1 :
  With(IF scaling
       THEN [w EXCEPT !.t = [w.t EXCEPT !.gestureType = type1,
                               !.lastTouchDistance = Some(currentDistance)]]
       ELSE w, LAMBDA w1 :
  With(IF scaling /\ type1 = "pinch" /\ pinchScale # R(0)
       THEN handlePinchZoom(c, w1, RMul(c.z.scale, pinchScale), getPinchCenter(touches))
       ELSE w1, LAMBDA w2 :
    LET panning == Len(touches) = 2 /\ IsSome(w2.t.lastPinchCenter) /\ w2.t.isPinching
    IN
    With(IF panning THEN classifyPinch(w2.t, touches) ELSE w2.t.gestureType, LAMBDA type2 :
    With(IF panning
         THEN [w2 EXCEPT !.t = [w2.t EXCEPT !.gestureType = type2,
                                  !.lastPinchCenter = Some(getPinchCenter(touches))]]
         ELSE w2, LAMBDA w3 :
      IF panning /\ type2 = "pan"
      THEN pan(w3, PSub(getPinchCenter(touches), Val(w2.t.lastPinchCenter)))
      ELSE w3)))))

handleTouchMove(c, w, touches) ==
  IF c.z.isAnimating THEN w
  ELSE IF c.tv.isPinching THEN pinchMove(c, w, touches)
  ELSE IF Len(touches) = 1
  THEN
    LET touchPos == touches[1]
        coords == getCanvasCoordinates(c, touchPos)
        ctx == mkCtx(c, touchPos, coords, TRUE)
    IN
    With(moveTouch(w, touches), LAMBDA w1 :
    With(IF c.tv.currentMode = "move" /\ c.d.drawingMode \in {"adjust", "draw"}
         THEN [w1 EXCEPT !.d = resetMode(w1.d)]
         ELSE IF c.tv.currentMode = "draw" /\ c.d.drawingMode = "adjust"
         THEN [setLineThickness(w1, calculateDynamicThickness(ctx)) EXCEPT
                 !.d = startDrawing(startDrawMode(w1.d), coords,
                                    calculateDynamicThickness(ctx))]
         ELSE w1, LAMBDA w2 :
    With(IF c.tv.currentMode \in {"adjust", "draw", "moveLine"}
         THEN [w2 EXCEPT !.d = updateLoupePosition(c.d, w2.d, touchPos,
                                                   c.tv.isStationary)]
         ELSE w2, LAMBDA w3 :
      IF c.d.isDrawing THEN [w3 EXCEPT !.d = draw(c.d, w3.d, coords)]
      ELSE IF c.tv.currentMode = "moveLine" /\ c.d.selectedLineIndex # NoIndex
              /\ c.t.hasMoved
      THEN [w3 EXCEPT !.d = dragLine(c.d, w3.d, coords)]
      ELSE IF c.tv.currentMode = "move"
      THEN drag(c, IF ~c.z.isDragging /\ IsSome(w3.e.initialTouchRef)
                   THEN startDragging(c, w3, Val(w3.e.initialTouchRef))
                   ELSE w3,
                touchPos)
      ELSE w3)))
  ELSE w

\* a plausible slip: no exclusion zone around the strokes
tapAtAnywhere(c, w, tap) ==
  LET coords == getCanvasCoordinates(c, tap)
  IN  With(findLineAtPoint(c.d, coords), LAMBDA clickedLineIndex :
        IF clickedLineIndex # NoIndex
        THEN [w EXCEPT !.d = changeLineThickness(c.d, w.d, clickedLineIndex,
                                                 c.e.imageSize.width, c.e.imageSize.height)]
        ELSE IF isDoubleTap(w, tap) THEN handleDoubleTap(c, checkDoubleTap(w, tap), tap)
        ELSE checkDoubleTap(w, tap))

\* the tap branch of handleTouchEnd
tapAt(c, w, tap) ==
  LET coords == getCanvasCoordinates(c, tap)
  IN  With(findLineAtPoint(c.d, coords), LAMBDA clickedLineIndex :
        IF clickedLineIndex # NoIndex
        THEN [w EXCEPT !.d = changeLineThickness(c.d, w.d, clickedLineIndex,
                                                 c.e.imageSize.width, c.e.imageSize.height)]
        ELSE IF isNearLine(c.d, coords, LINE_ZOOM_EXCLUSION_RADIUS) THEN w
        ELSE IF isDoubleTap(w, tap) THEN handleDoubleTap(c, checkDoubleTap(w, tap), tap)
        ELSE checkDoubleTap(w, tap))

\* touches are the contacts that stay, changed the contact that left
handleTouchEnd(c, w, touches, changed) ==
  With(endTouch(w, touches), LAMBDA w1 :
  With(IF isQuickTap(c, w1) /\ ~c.tv.isPinching THEN tapAt(c, w1, changed) ELSE w1,
       LAMBDA w2 :
    [stopDragging([w2 EXCEPT
                     !.d = resetMode(stopDraggingLine(c.d, stopDrawing(c.d, w2.d)))])
       EXCEPT !.e.initialTouchRef = None]))

handleMouseDown(c, w, client) ==
  LET coords == getCanvasCoordinates(c, client)
      w1 == [w EXCEPT !.f.isAiDetectionLine = FALSE,
                      !.e = [w.e EXCEPT !.mouseStartAge = 0,
                               !.initialMousePos = Some(client),
                               !.mouseHasMoved = FALSE, !.dirty = TRUE]]
  IN  With(findLineAtPoint(c.d, coords), LAMBDA clickedLineIndex :
        IF clickedLineIndex # NoIndex
        THEN [w1 EXCEPT !.d = selectLine(c.d, w1.d, clickedLineIndex, coords)]
        ELSE LET w2 == [w1 EXCEPT
                          !.tm = setTimeout(w1.tm,
                                   mkTimer("longPress", "longPress", LONG_PRESS_DURATION,
                                           mkCtx(c, client, coords, FALSE))),
                          !.e.longPressTimerRef = TRUE]
             IN  IF c.d.drawingMode = "move" THEN startDragging(c, w2, client) ELSE w2)

\* a plausible slip: the move handler never cancels the long press
handleMouseMoveNoCancel(c, w, client) ==
  LET coords == getCanvasCoordinates(c, client)
  IN  IF c.d.isDrawing THEN [w EXCEPT !.d = draw(c.d, w.d, coords)]
      ELSE IF c.d.selectedLineIndex # NoIndex
      THEN [w EXCEPT !.d = dragLine(c.d, w.d, coords)]
      ELSE IF c.z.isDragging /\ c.d.drawingMode = "move" THEN drag(c, w, client)
      ELSE w

handleMouseMove(c, w, client) ==
  LET far == /\ IsSome(c.e.initialMousePos) /\ ~w.e.mouseHasMoved
             /\ RLt(R(MOUSE_MOVE_THRESHOLD * MOUSE_MOVE_THRESHOLD),
                    DistSq(client, Val(c.e.initialMousePos)))
      w1 == IF far
            THEN [w EXCEPT !.e = [w.e EXCEPT !.mouseHasMoved = TRUE,
                                    !.longPressTimerRef = FALSE],
                           !.tm = clearTimeout(w.tm, w.e.longPressTimerRef, "longPress")]
            ELSE w
      coords == getCanvasCoordinates(c, client)
  IN  IF c.d.isDrawing THEN [w1 EXCEPT !.d = draw(c.d, w1.d, coords)]
      ELSE IF c.d.selectedLineIndex # NoIndex
      THEN [w1 EXCEPT !.d = dragLine(c.d, w1.d, coords)]
      ELSE IF c.z.isDragging /\ c.d.drawingMode = "move" THEN drag(c, w1, client)
      ELSE w1

handleMouseUp(c, w, client) ==
  LET w1 == [w EXCEPT !.tm = clearTimeout(w.tm, w.e.longPressTimerRef, "longPress"),
                      !.e.longPressTimerRef = FALSE]
      coords == getCanvasCoordinates(c, client)
  IN
  With(findLineAtPoint(c.d, coords), LAMBDA clickedLineIndex :
  With(IF /\ w.e.mouseStartAge < LONG_PRESS_DURATION /\ ~c.d.isDrawing
          /\ ~w.e.mouseHasMoved /\ clickedLineIndex # NoIndex
       THEN [w1 EXCEPT !.d = changeLineThickness(c.d, w1.d, clickedLineIndex,
                               c.e.imageSize.width, c.e.imageSize.height)]
       ELSE w1, LAMBDA w2 :
    [stopDragging(w2) EXCEPT
       !.d = stopDrawing(c.d, w2.d),
       !.e = [w2.e EXCEPT !.initialMousePos = None, !.mouseHasMoved = FALSE]]))

(* ------------------------------ observation --------------------------- *)

\* the running single-contact gesture, as the user's side sees it:
\*   startPos   where the contact went down
\*   age        time since then, saturated at LONG_PRESS_DURATION
\*   accepted   handleTouchStart passed its animation guard
\*   reached    a move reported a displacement >= the click threshold while
\*              the classification timer was pending
\*   fired      the classification callback ran
\*   farAtFire  the finger was then farther than the click threshold from
\*              startPos
\*   moved      hasMoved was set during the gesture
\*   opened     startDrawing ran during the gesture
\*   rest       time spent in 'adjust' since the last move of more than
\*              1 px from the previous position, saturated at
\*              DRAW_MODE_DELAY; 0 in every other mode
NoGesture ==
  [startPos |-> None, age |-> 0, accepted |-> FALSE, reached |-> FALSE,
   fired |-> FALSE, farAtFire |-> FALSE, moved |-> FALSE, opened |-> FALSE,
   multi |-> FALSE, rest |-> 0]

\* a remembered tap: its place, the time since it, and whether it was the
\* second tap of a pair

NoTap == [tapPos |-> None, tapAge |-> DOUBLE_TAP_WINDOW, tapSecond |-> FALSE]

\* the observation kept across events: the running gesture, the last tap
\* wherever it landed (lastTap), and the last tap that landed away from
\* every stroke by more than the exclusion radius (lastClean)
GestureInit == [g |-> NoGesture, lastTap |-> NoTap, lastClean |-> NoTap]

\* what one event did
mkObs(event) ==
  [event |-> event, tap |-> FALSE, onStroke |-> FALSE, nearStroke |-> FALSE,
   animating |-> FALSE, cycles |-> 0,
   saves |-> 0, threw |-> FALSE, dblChecked |-> FALSE, dblTap |-> FALSE,
   zoomStarted |-> FALSE, modeAtRelease |-> "none", paired |-> FALSE,
   pairedClean |-> FALSE,
   small |-> FALSE, quick |-> FALSE, frames |-> <<>>, g |-> NoGesture,
   container |-> Container, batch |-> <<>>, retry |-> FALSE]

\* React renders after an event that changed state or set a fresh object
Rendered(w) ==
  \/ w.d.dirty \/ w.z.dirty \/ w.e.dirty
  \/ Commit(w.d) # drawing
  \/ w.t.hasMoved # touch.hasMoved
  \/ w.t.lastTouchDistance # touch.lastTouchDistance
  \/ [w.z EXCEPT !.dirty = FALSE] # zoomPan
  \/ w.e.imageSize # editor.imageSize
  \/ w.e.lineThickness # editor.lineThickness
  \/ w.e.initialMousePos # editor.initialMousePos
  \/ HookState(w.f) # HookState(faceDetection)

\* the render and its effects (the fit effect, the ref-sync effects)
AfterRenderIn(z, imageSize, container) ==
  With(fitToContainer(z, imageSize, container), LAMBDA fitted :
    [fitted EXCEPT !.scaleRef = fitted.scale, !.positionRef = fitted.position,
                   !.dirty = FALSE])

AfterRender(z, imageSize) == AfterRenderIn(z, imageSize, Container)

\* the event ends: its updates are committed, the render finds the
\* container with the given rectangle
ApplyIn(w, container) ==
  /\ drawing' = Commit(w.d)
  /\ touch' = w.t
  /\ touchView' = IF Rendered(w) THEN ViewOf(w.t) ELSE touchView
  /\ zoomPan' = IF Rendered(w) THEN AfterRenderIn(w.z, w.e.imageSize, container) ELSE w.z
  /\ editor' = [w.e EXCEPT !.dirty = FALSE]
  /\ faceDetection' = w.f
  /\ timers' = w.tm
  /\ rafQueue' = w.rq

Apply(w) == ApplyIn(w, Container)

\* the gesture record after an event that led to w
Observe(g, w) ==
  [g EXCEPT
     !.opened = @ \/ (IsSome(g.startPos) /\ w.d.isDrawing /\ ~drawing.isDrawing),
     !.moved = @ \/ (IsSome(g.startPos) /\ w.t.hasMoved /\ ~touch.hasMoved),
     !.rest = IF w.t.currentMode = "adjust" THEN @ ELSE 0]

ObsOf(event, w) ==
  [mkObs(event) EXCEPT !.cycles = w.d.cycles, !.saves = w.d.saves, !.threw = w.d.threw]

(* -------------------------------- bounds ------------------------------- *)

\* a gesture starts only while the history holds fewer snapshots than this
MaxHistory == 3

\* the number of gestures (finger or button down) of one run
MaxGestures == 3

\* the number of those gestures in which the finger or the mouse moves
MaxMoveGestures == 1

\* the touchmove events of one gesture
MaxMoves == 2

\* the input events the browser delivers between two frames request at most
\* this many frame callbacks
MaxFrames == 2

\* the wheel notches of one run
MaxWheels == 2

\* the presses of the reset-view button of one run
MaxResets == 1

\* the gestures, wheel notches and resets of one run of the viewport
MaxViewOps == 3

\* the mousemove events of one run
MaxMouseMoves == 3

\* the user's fingers stay on one horizontal line of the screen
TouchY == Container.height \div 2

(* -------------------------------- actions ------------------------------ *)

\* the user's side: the contacts on the screen, the mouse button, and how
\* many gestures, moves, wheel notches and resets the run has seen
\* window is the inner size of the browser window
\* press is the running mouse press: where the button went down, the image
\* point then under the mouse, whether that point hit a stroke, whether the
\* mouse has since been farther than MOUSE_MOVE_THRESHOLD from there before
\* LONG_PRESS_DURATION had passed (farEarly), and whether it has been that
\* far while no stroke was open (far)
NoPress ==
  [pos |-> None, canvas |-> Pt(0, 0), onStroke |-> FALSE, farEarly |-> FALSE,
   far |-> FALSE]

NoPointer ==
  [touches |-> <<>>, mouseDown |-> FALSE, mousePos |-> None, gestures |-> 0,
   moveGestures |-> 0, moves |-> 0, mouseMoves |-> 0, wheels |-> 0, resets |-> 0,
   press |-> NoPress, window |-> [width |-> 400, height |-> 300]]

Init ==
  /\ drawing = DrawingInit
  /\ touch = TouchInit
  /\ touchView = ViewOf(TouchInit)
  /\ zoomPan = ZoomPanInit
  /\ editor = EditorInit
  /\ faceDetection = FaceDetectionInit
  /\ timers = <<>>
  /\ rafQueue = <<>>
  /\ pointer = NoPointer
  /\ gesture = GestureInit
  /\ obs = mkObs("init")

\* the user acts on the shown image
Ready == editor.imageSize.width > 0

\* the image element reports its natural size, once
ImageLoad(sizes) ==
  /\ editor.imageSize.width = 0
  /\ \E size \in sizes : Apply(handleImageLoad(World, size[1], size[2]))
  /\ obs' = mkObs("imageLoad")
  /\ UNCHANGED <<pointer, gesture>>

\* a first finger goes down at (x, TouchY)
TouchStart(xs) ==
  /\ Ready
  /\ pointer.touches = <<>>
  /\ Len(drawing.linesHistory) < MaxHistory
  /\ pointer.gestures < MaxGestures
  /\ \E x \in xs :
       LET pos == Pt(x, TouchY)
       IN  With(handleTouchStart(Closure, World, <<pos>>), LAMBDA w :
             /\ Apply(w)
             /\ pointer' = [pointer EXCEPT !.touches = <<pos>>, !.gestures = @ + 1,
                                            !.moves = 0]
             /\ gesture' = [gesture EXCEPT
                              !.g = [NoGesture EXCEPT !.startPos = Some(pos),
                                                      !.accepted = ~zoomPan.isAnimating]]
             /\ obs' = ObsOf("touchStart", w))

\* the classification timer of the running gesture has not fired yet
ClassificationPending ==
  \E i \in 1..Len(timers) : timers[i].kind = "modeCheck"

\* the single finger moves to (x, TouchY); a gesture has at most maxMoves
\* moves, and at most maxMoveGestures gestures of the run have any
TouchMoveWithin(xs, maxMoves, maxMoveGestures) ==
  /\ Len(pointer.touches) = 1
  /\ Len(rafQueue) < MaxFrames
  /\ pointer.moves < maxMoves
  /\ pointer.moves > 0 \/ pointer.moveGestures < maxMoveGestures
  /\ \E x \in xs :
       LET pos == Pt(x, TouchY)
           far == RLe(R(CLICK_DISTANCE_THRESHOLD * CLICK_DISTANCE_THRESHOLD),
                      DistSq(pos, Val(gesture.g.startPos)))
       IN  With(handleTouchMove(Closure, World, <<pos>>), LAMBDA w :
             /\ pos # pointer.touches[1]
             /\ Apply(w)
             /\ pointer' = [pointer EXCEPT !.touches = <<pos>>, !.moves = @ + 1,
                                            !.moveGestures = IF pointer.moves = 0
                                                             THEN @ + 1 ELSE @]
             /\ gesture' = [gesture EXCEPT
                              !.g = [Observe(gesture.g, w) EXCEPT
                                       !.reached =
                                         @ \/ (gesture.g.accepted /\ ClassificationPending
                                               /\ far),
                                       !.rest =
                                         IF RLt(R(1),
                                                DistSq(pos, pointer.touches[1]))
                                         THEN 0 ELSE @]]
             /\ obs' = ObsOf("touchMove", w))

TouchMove(xs) == TouchMoveWithin(xs, MaxMoves, MaxMoveGestures)

\* two taps form a pair: the earlier one is not itself the second of a pair
\* and lies within the double-tap window and distance
Pairs(last, pos) ==
  /\ IsSome(last.tapPos) /\ ~last.tapSecond
  /\ last.tapAge < DOUBLE_TAP_WINDOW
  /\ RLt(DistSq(pos, Val(last.tapPos)), R(DOUBLE_TAP_DISTANCE * DOUBLE_TAP_DISTANCE))

\* the single finger is lifted where it is
TouchEnd ==
  /\ Len(pointer.touches) = 1
  /\ LET pos == pointer.touches[1]
         c == Closure
         g == gesture.g
         coords == getCanvasCoordinates(c, pos)
         tap == isQuickTap(c, World) /\ ~c.tv.isPinching
         quick == g.age < LONG_PRESS_DURATION
         mkTap(second) == [tapPos |-> Some(pos), tapAge |-> 0, tapSecond |-> second]
     IN
     With(handleTouchEnd(c, World, <<>>, pos), LAMBDA w :
     With(findLineAtPoint(c.d, coords) # NoIndex, LAMBDA hit :
     With(isNearLine(c.d, coords, LINE_ZOOM_EXCLUSION_RADIUS), LAMBDA near :
     With(RLt(DistSq(pos, Val(g.startPos)),
              R(CLICK_DISTANCE_THRESHOLD * CLICK_DISTANCE_THRESHOLD)), LAMBDA small :
     With(tap /\ ~hit /\ ~near, LAMBDA clean :
         /\ Apply(w)
         /\ pointer' = [pointer EXCEPT !.touches = <<>>, !.moves = 0]
         /\ gesture' =
              [g |-> NoGesture,
               lastTap |-> IF small /\ quick /\ g.accepted /\ ~g.moved
                           THEN mkTap(Pairs(gesture.lastTap, pos))
                           ELSE gesture.lastTap,
               lastClean |-> IF clean THEN mkTap(Pairs(gesture.lastClean, pos))
                             ELSE gesture.lastClean]
         /\ obs' = [ObsOf("touchEnd", w) EXCEPT
                      !.tap = tap, !.onStroke = hit, !.nearStroke = near,
                      !.animating = zoomPan.isAnimating,
                      !.dblChecked = w.t.lastTapPosition # touch.lastTapPosition
                                     \/ w.t.lastTapAge # touch.lastTapAge,
                      !.dblTap = IsSome(touch.lastTapPosition)
                                 /\ ~IsSome(w.t.lastTapPosition),
                      !.zoomStarted = w.rq # rafQueue,
                      !.modeAtRelease = touch.currentMode,
                      !.paired = Pairs(gesture.lastTap, pos),
                      !.pairedClean = Pairs(gesture.lastClean, pos),
                      !.small = small, !.quick = quick,
                      !.g = g])))))

\* the undo button
Undo ==
  /\ Ready
  /\ Len(drawing.lines) > 0
  /\ With([World EXCEPT !.d = undo(drawing, drawing)], LAMBDA w :
       /\ Apply(w)
       /\ gesture' = [gesture EXCEPT !.g = Observe(gesture.g, w)]
       /\ obs' = ObsOf("undo", w))
  /\ UNCHANGED pointer

\* the reset-view button
ResetView ==
  /\ Ready
  /\ pointer.resets < MaxResets
  /\ With(resetWithAnimation(Closure, World), LAMBDA w :
       /\ Apply(w)
       /\ obs' = ObsOf("resetView", w))
  /\ pointer' = [pointer EXCEPT !.resets = @ + 1]
  /\ UNCHANGED gesture

\* the index of the first pending timer that is due, 0 if none is
RECURSIVE FirstDue(_, _)
FirstDue(tm, i) ==
  IF i > Len(tm) THEN 0
  ELSE IF tm[i].remaining = 0 THEN i
  ELSE FirstDue(tm, i + 1)

RemoveAt(seq, i) == SubSeq(seq, 1, i - 1) \o SubSeq(seq, i + 1, Len(seq))

runTimer(w, timer) ==
  IF timer.kind = "modeCheck" THEN modeCheckCallback(w, timer.ctx)
  ELSE IF timer.kind = "adjustToDraw" THEN adjustToDrawCallback(w, timer.ctx)
  ELSE IF timer.kind = "adjustToDrawMove" THEN adjustToDrawMoveCallback(w)
  ELSE longPressCallback(w, timer.ctx)

\* a due timer runs its callback
FireTimer ==
  /\ FirstDue(timers, 1) # 0
  /\ LET i == FirstDue(timers, 1)
     IN
     With(runTimer([World EXCEPT !.tm = RemoveAt(timers, i)], timers[i]), LAMBDA w :
     With(Observe(gesture.g, w), LAMBDA g :
         /\ Apply(w)
         /\ gesture' = [gesture EXCEPT
                          !.g = IF timers[i].kind = "modeCheck" /\ IsSome(g.startPos)
                                THEN [g EXCEPT
                                        !.fired = TRUE,
                                        !.farAtFire =
                                           RLt(R(CLICK_DISTANCE_THRESHOLD
                                                 * CLICK_DISTANCE_THRESHOLD),
                                               DistSq(pointer.touches[1],
                                                      Val(g.startPos)))]
                                ELSE g]
         /\ obs' = ObsOf(timers[i].kind, w)))
  /\ UNCHANGED pointer

\* every requested frame callback has run at the present time
FramesDone == \A i \in 1..Len(rafQueue) : rafQueue[i].fresh

AgeTap(tap) ==
  IF ~IsSome(tap.tapPos) \/ tap.tapAge + TimeUnit >= DOUBLE_TAP_WINDOW THEN NoTap
  ELSE [tap EXCEPT !.tapAge = @ + TimeUnit]

\* TimeUnit passes; due timers and requested frames run first
Tick ==
  /\ FirstDue(timers, 1) = 0
  /\ FramesDone
  /\ timers' = [i \in 1..Len(timers) |-> [timers[i] EXCEPT !.remaining = @ - TimeUnit]]
  /\ rafQueue' = [i \in 1..Len(rafQueue) |->
                    [rafQueue[i] EXCEPT
                       !.elapsed = Older(@, DOUBLE_TAP_ANIMATION_DURATION),
                       !.fresh = FALSE]]
  /\ touch' = [touch EXCEPT
                 !.touchStartAge = Older(@, LONG_PRESS_DURATION),
                 !.lastTapAge = Older(@, DOUBLE_TAP_WINDOW),
                 !.adjustModeStartAge =
                    IF IsSome(@) THEN Some(Older(Val(@), EARLY_MOVE_WINDOW)) ELSE @]
  /\ editor' = [editor EXCEPT !.mouseStartAge = Older(@, LONG_PRESS_DURATION)]
  /\ gesture' = [g |-> IF IsSome(gesture.g.startPos)
                       THEN [gesture.g EXCEPT
                               !.age = Older(@, LONG_PRESS_DURATION),
                               !.rest = IF touch.currentMode = "adjust"
                                        THEN Older(@, DRAW_MODE_DELAY) ELSE 0]
                       ELSE gesture.g,
                 lastTap |-> AgeTap(gesture.lastTap),
                 lastClean |-> AgeTap(gesture.lastClean)]
  /\ obs' = mkObs("tick")
  /\ UNCHANGED <<drawing, touchView, zoomPan, faceDetection, pointer>>

\* the browser runs the requested frame callbacks, then React renders
RunFrame ==
  /\ rafQueue # <<>>
  /\ ~FramesDone
  /\ Apply(runFrames([World EXCEPT !.rq = <<>>], rafQueue))
  /\ obs' = [mkObs("frame") EXCEPT
               !.frames = [i \in 1..Len(rafQueue) |->
                             [kind |-> rafQueue[i].kind,
                              point |-> rafQueue[i].point]]]
  /\ UNCHANGED <<pointer, gesture>>

(* ----------------------------- specifications -------------------------- *)

\* image sizes [width, height] and finger places of the touch editor
ImageSizes == {<<400, 300>>}

TouchXs == {50, 52, 60, 150, 300}

Next ==
  \/ ImageLoad(ImageSizes)
  \/ TouchStart(TouchXs)
  \/ TouchMove(TouchXs)
  \/ TouchEnd
  \/ Undo
  \/ Tick
  \/ FireTimer
  \/ RunFrame

Spec == Init /\ [][Next]_vars

(* ----------------------- claims on the touch editor -------------------- *)

StrokeLengthSq(line) == DistSq(line.end, line.start)

ThresholdSq == R(CLICK_DISTANCE_THRESHOLD * CLICK_DISTANCE_THRESHOLD)

\* C4: a stroke committed by ending a drawing gesture is at least the click
\* threshold long, and ending a gesture whose open stroke is not longer than
\* the threshold leaves the stroke list, the history and the cursor as they
\* were.
C4_CommitOnlyLongStrokes ==
  [][obs'.event = "touchEnd" =>
       /\ Len(drawing'.lines) > Len(drawing.lines) =>
            RLe(ThresholdSq, StrokeLengthSq(drawing'.lines[Len(drawing'.lines)]))
       /\ ( /\ drawing.isDrawing /\ IsSome(drawing.currentLine)
            /\ RLe(StrokeLengthSq(Val(drawing.currentLine)), ThresholdSq)
            /\ obs'.cycles = 0 )
          => /\ drawing'.lines = drawing.lines
             /\ drawing'.linesHistory = drawing.linesHistory
             /\ drawing'.historyIndex = drawing.historyIndex]_vars

\* a drawing gesture has just ended and committed its stroke
C4_Witness ==
  /\ obs.event = "touchEnd" /\ obs.g.opened /\ obs.saves = 1 /\ obs.cycles = 0
  /\ Len(drawing.lines) > 0

\* a drawing gesture has just ended and its short stroke was discarded
C4_DiscardReached ==
  obs.event = "touchEnd" /\ obs.g.opened /\ obs.saves = 0

\* the last event was the release of a single contact that began outside an
\* animation, was never classified as a move, ended within the click
\* threshold of where it went down and lasted less than LONG_PRESS_DURATION
ReleasedAsTap ==
  obs.event = "touchEnd" /\ obs.small /\ obs.quick /\ obs.g.accepted /\ ~obs.g.moved

C5_NearReached == ReleasedAsTap /\ ~obs.onStroke /\ obs.nearStroke

CleanTap ==
  obs.event = "touchEnd" /\ obs.tap /\ ~obs.onStroke /\ ~obs.nearStroke

C7_ThirdReached ==
  /\ CleanTap /\ ~obs.pairedClean /\ ~obs.zoomStarted
  /\ IsSome(gesture.lastClean.tapPos) /\ pointer.gestures = 3
  /\ zoomPan.scale # zoomPan.initialScaleRef

(* --------------------- thickness cycling over image sizes -------------- *)

\* image sizes [width, height] of the thickness cycle
ThicknessImageSizes ==
  {<<40, 30>>, <<120, 90>>, <<200, 150>>, <<400, 300>>, <<1000, 750>>, <<4000, 3000>>}

\* the taps on the stroke of one run
MaxCycles == 6

\* an image was loaded and fitted, and one stroke was drawn on it at the fit
\* scale: it has the thickness onDrawMode gave it
InitThickness ==
  \E size \in ThicknessImageSizes :
    LET imageSize == [width |-> size[1], height |-> size[2]]
        z == AfterRender(ZoomPanInit, imageSize)
        thickness ==
          calculateDynamicThickness(
            [imageWidth |-> imageSize.width, imageHeight |-> imageSize.height,
             scale |-> z.scale, lineThickness |-> getDefaultThickness(size[1], size[2])])
        line == mkLine(Pt(10, 10), Pt(20, 10), thickness)
    IN  /\ drawing = [DrawingInit EXCEPT !.lines = <<line>>,
                                         !.linesHistory = << <<>>, <<line>> >>,
                                         !.historyIndex = 1]
        /\ touch = TouchInit
        /\ touchView = ViewOf(TouchInit)
        /\ zoomPan = z
        /\ editor = [EditorInit EXCEPT !.imageSize = imageSize,
                                       !.lineThickness = thickness]
        /\ faceDetection = FaceDetectionInit
        /\ timers = <<>>
        /\ rafQueue = <<>>
        /\ pointer = NoPointer
        /\ gesture = GestureInit
        /\ obs = mkObs("init")

\* a tap on the stroke: handleTouchEnd finds it and cycles its thickness
CycleThickness ==
  /\ Len(drawing.lines) > 0
  /\ Len(drawing.linesHistory) < MaxCycles + 2
  /\ With([World EXCEPT
             !.d = changeLineThickness(drawing, drawing, 0, editor.imageSize.width,
                                       editor.imageSize.height)], LAMBDA w :
       /\ Apply(w)
       /\ obs' = ObsOf("cycle", w))
  /\ UNCHANGED <<pointer, gesture>>

NextThickness == CycleThickness \/ Undo

SpecThickness == InitThickness /\ [][NextThickness]_vars

\* the options of the loaded image
OptionsOfImage == getThicknessOptions(editor.imageSize.width, editor.imageSize.height)

\* the thickness of the stroke in the snapshot taken after its k-th cycle
ThicknessAfter(k) == drawing.linesHistory[k + 2][1].thickness

\* C8: for every image size, cycling a stroke as many times as there are
\* options visits every option and returns the stroke to its original
\* thickness.
C8_CycleVisitsAllAndReturns ==
  LET n == Len(OptionsOfImage)
  IN  Len(drawing.linesHistory) >= n + 2 =>
        /\ ThicknessAfter(n) = ThicknessAfter(0)
        /\ {ThicknessAfter(k) : k \in 1..n} = {OptionsOfImage[i] : i \in 1..n}

\* on an image whose options are pairwise different the cycle has come round
C8_RoundReached ==
  LET n == Len(OptionsOfImage)
  IN  /\ Len(drawing.linesHistory) >= n + 2
      /\ ThicknessAfter(n) = ThicknessAfter(0)
      /\ Cardinality({OptionsOfImage[i] : i \in 1..n}) = n

(* -------------------------------- viewport ----------------------------- *)

\* image sizes [width, height], finger places, wheel notches (deltaY) and
\* two-finger places of the viewport
ViewImageSizes == {<<400, 300>>, <<100, 75>>}

ViewXs == {100}

WheelXs == {300}

SecondXs == {200}

WheelDeltas == {-100, 100}

PinchXs == {<<100, 200>>, <<80, 220>>, <<130, 230>>}

\* the wheel turns one notch over (x, TouchY)
Wheel(deltas, xs) ==
  /\ Ready
  /\ Len(rafQueue) < MaxFrames
  /\ pointer.wheels < MaxWheels
  /\ \E delta \in deltas, x \in xs :
       With(handleWheel(Closure, World, delta, Pt(x, TouchY)), LAMBDA w :
         /\ Apply(w)
         /\ obs' = ObsOf("wheel", w))
  /\ pointer' = [pointer EXCEPT !.wheels = @ + 1]
  /\ UNCHANGED gesture

\* a second finger goes down at (x, TouchY), after at most maxMoves moves of
\* the gesture
SecondTouchStartWithin(xs, maxMoves) ==
  /\ Len(pointer.touches) = 1
  /\ pointer.moves <= maxMoves
  /\ \E x \in xs :
       LET touches == <<pointer.touches[1], Pt(x, TouchY)>>
       IN  With(handleTouchStart(Closure, World, touches), LAMBDA w :
             /\ touches[1] # touches[2]
             /\ Apply(w)
             /\ pointer' = [pointer EXCEPT !.touches = touches]
             /\ gesture' = [gesture EXCEPT
                              !.g = [Observe(gesture.g, w) EXCEPT
                                       !.multi = @ \/ ~zoomPan.isAnimating]]
             /\ obs' = ObsOf("touchStart", w))

SecondTouchStart(xs) == SecondTouchStartWithin(xs, 0)

\* the two fingers move to (xs[1], TouchY) and (xs[2], TouchY)
PinchMove(pairs) ==
  /\ Len(pointer.touches) = 2
  /\ Len(rafQueue) < MaxFrames
  /\ pointer.moves < MaxMoves
  /\ \E xs \in pairs :
       LET touches == <<Pt(xs[1], TouchY), Pt(xs[2], TouchY)>>
       IN  With(handleTouchMove(Closure, World, touches), LAMBDA w :
             /\ touches # pointer.touches
             /\ Apply(w)
             /\ pointer' = [pointer EXCEPT !.touches = touches, !.moves = @ + 1]
             /\ gesture' = [gesture EXCEPT !.g = Observe(gesture.g, w)]
             /\ obs' = ObsOf("touchMove", w))

\* the second finger is lifted where it is
SecondTouchEnd ==
  /\ Len(pointer.touches) = 2
  /\ With(handleTouchEnd(Closure, World, <<pointer.touches[1]>>, pointer.touches[2]),
          LAMBDA w :
       /\ Apply(w)
       /\ pointer' = [pointer EXCEPT !.touches = <<pointer.touches[1]>>]
       /\ gesture' = [gesture EXCEPT !.g = Observe(gesture.g, w)]
       /\ obs' = ObsOf("touchEnd2", w))

\* the run of the viewport has operations left
ViewBudget == pointer.gestures + pointer.wheels + pointer.resets < MaxViewOps

\* no finger is on the screen: the touches of the viewport are shorter than
\* the classification delay, the wheel turns and the button is pressed
\* between them
NoContact == pointer.touches = <<>>

NextView ==
  \/ ImageLoad(ViewImageSizes)
  \/ ViewBudget /\ TouchStart(ViewXs)
  \/ SecondTouchStart(SecondXs)
  \/ PinchMove(PinchXs)
  \/ SecondTouchEnd
  \/ TouchEnd
  \/ ViewBudget /\ NoContact /\ Wheel(WheelDeltas, WheelXs)
  \/ ViewBudget /\ NoContact /\ ResetView
  \/ NoContact /\ Tick
  \/ RunFrame

SpecView == Init /\ [][NextView]_vars

(* ------------------------- claims on the viewport ---------------------- *)

\* C9: once the image is fitted, the scale stays between the fit scale and
\* MAX_SCALE, in every frame of an animation too.
C9_ScaleWithinLimits ==
  zoomPan.isInitialized =>
    /\ RLe(zoomPan.initialScaleRef, zoomPan.scale)
    /\ RLe(zoomPan.scale, R(MAX_SCALE))

\* the image point shown at a screen point
ShownAt(point, z) == CanvasPoint(point, z.scale, z.position)

\* the step ran one frame whose only callback was a wheel or pinch zoom
ZoomFrame ==
  /\ obs'.event = "frame"
  /\ Len(rafQueue) = 1
  /\ rafQueue[1].kind \in {"wheel", "pinch"}

\* the step was the second tap of a double tap at the fit scale: the zoom-in
\* half of handleDoubleTap
ZoomInTap ==
  /\ obs'.event = "touchEnd"
  /\ obs'.dblTap /\ obs'.zoomStarted
  /\ atInitialScale(zoomPan)

\* the step ran the last frame of an animation, and nothing else
LastAnimationFrame ==
  /\ obs'.event = "frame"
  /\ Len(rafQueue) = 1
  /\ rafQueue[1].kind = "animate"
  /\ rafQueue[1].elapsed >= DOUBLE_TAP_ANIMATION_DURATION

\* C10: a wheel or pinch zoom keeps the image point under its screen point;
\* the zoom-in of a double tap animates to a viewport that keeps the image
\* point under the tap, and the animation ends exactly there.
C10_ZoomKeepsPoint ==
  [][ /\ ZoomFrame =>
           /\ ShownAt(rafQueue[1].point, zoomPan') = ShownAt(rafQueue[1].point, zoomPan)
           /\ zoomPan'.position =
                PSub(rafQueue[1].point,
                     PScale(ShownAt(rafQueue[1].point, zoomPan), zoomPan'.scale))
      /\ ZoomInTap =>
           LET f == rafQueue'[Len(rafQueue')]
               tap == pointer.touches[1]
               target == [scale |-> f.targetScale, position |-> f.targetPosition]
           IN  /\ f.kind = "animate"
               /\ ShownAt(tap, target) = ShownAt(tap, zoomPan)
      /\ LastAnimationFrame =>
           /\ zoomPan'.scale = rafQueue[1].targetScale
           /\ zoomPan'.position = rafQueue[1].targetPosition
    ]_vars

\* a wheel or pinch zoom has just changed the scale
C10_Witness ==
  /\ obs.event = "frame"
  /\ Len(obs.frames) = 1
  /\ obs.frames[1].kind \in {"wheel", "pinch"}
  /\ zoomPan.scale # zoomPan.initialScaleRef

\* the zoom-in of a double tap has ended on a scale other than the fit scale
C10_ZoomInReached ==
  /\ obs.event = "frame"
  /\ Len(obs.frames) = 1
  /\ obs.frames[1].kind = "animate"
  /\ ~zoomPan.isAnimating
  /\ zoomPan.scale = RMul(zoomPan.initialScaleRef, DOUBLE_TAP_ZOOM_FACTOR)

(* ------------------------- mouse and touch together -------------------- *)

\* the mouse moves to (x, TouchY), its button up or down
MouseMove(xs) ==
  /\ Ready
  /\ Len(rafQueue) < MaxFrames
  /\ pointer.mouseMoves < MaxMouseMoves
  /\ \E x \in xs :
       LET pos == Pt(x, TouchY)
       IN  With(handleMouseMove(Closure, World, pos), LAMBDA w :
             /\ Some(pos) # pointer.mousePos
             /\ Apply(w)
             /\ pointer' = [pointer EXCEPT
                              !.mousePos = Some(pos), !.mouseMoves = @ + 1,
                              !.press.farEarly =
                                 @ \/ ( /\ pointer.mouseDown
                                        /\ editor.mouseStartAge < LONG_PRESS_DURATION
                                        /\ RLt(R(MOUSE_MOVE_THRESHOLD * MOUSE_MOVE_THRESHOLD),
                                               DistSq(pos, Val(pointer.press.pos))) ),
                              !.press.far =
                                 @ \/ ( /\ pointer.mouseDown /\ ~drawing.isDrawing
                                        /\ RLt(R(MOUSE_MOVE_THRESHOLD * MOUSE_MOVE_THRESHOLD),
                                               DistSq(pos, Val(pointer.press.pos))) )]
             /\ gesture' = [gesture EXCEPT !.g = Observe(gesture.g, w)]
             /\ obs' = ObsOf("mouseMove", w))

\* the mouse button goes down where the mouse is
MouseDown ==
  /\ Ready
  /\ ~pointer.mouseDown
  /\ IsSome(pointer.mousePos)
  /\ pointer.touches = <<>>
  /\ Len(drawing.linesHistory) < MaxHistory
  /\ pointer.gestures < MaxGestures
  /\ With(handleMouseDown(Closure, World, Val(pointer.mousePos)), LAMBDA w :
       /\ Apply(w)
       /\ gesture' = [gesture EXCEPT !.g = Observe(gesture.g, w)]
       /\ obs' = ObsOf("mouseDown", w))
  /\ pointer' = [pointer EXCEPT
                   !.mouseDown = TRUE, !.gestures = @ + 1,
                   !.press = [pos |-> pointer.mousePos,
                              canvas |-> getCanvasCoordinates(Closure, Val(pointer.mousePos)),
                              onStroke |->
                                 findLineAtPoint(drawing,
                                   getCanvasCoordinates(Closure, Val(pointer.mousePos)))
                                 # NoIndex,
                              farEarly |-> FALSE, far |-> FALSE]]

\* the mouse button goes up where the mouse is
MouseUp ==
  /\ pointer.mouseDown
  /\ With(handleMouseUp(Closure, World, Val(pointer.mousePos)), LAMBDA w :
       /\ Apply(w)
       /\ gesture' = [gesture EXCEPT !.g = Observe(gesture.g, w)]
       /\ obs' = ObsOf("mouseUp", w))
  /\ pointer' = [pointer EXCEPT !.mouseDown = FALSE, !.press = NoPress]

\* mouse places and finger places of the device with both
MouseXs == {50, 60}

HybridTouchXs == {60, 150}

NextHybrid ==
  \/ ImageLoad(ImageSizes)
  \/ MouseMove(MouseXs)
  \/ MouseDown
  \/ MouseUp
  \/ ~pointer.mouseDown /\ TouchStart(HybridTouchXs)
  \/ TouchMove(HybridTouchXs)
  \/ TouchEnd
  \/ Undo
  \/ NoContact /\ Tick
  \/ FireTimer
  \/ RunFrame

SpecHybrid == Init /\ [][NextHybrid]_vars

(* ------------------------- claims on the history ----------------------- *)

\* C1: the history cursor is a valid index into the snapshot sequence.
C1_CursorValid ==
  /\ 0 <= drawing.historyIndex
  /\ drawing.historyIndex < Len(drawing.linesHistory)

\* C2: an event that commits mutations pushes one snapshot for each: the
\* snapshots after the old cursor are discarded, those up to it are
\* unchanged, the cursor points at the last snapshot and that snapshot is the
\* new stroke list; so too when one event commits two mutations.
C2_OneSnapshotPerMutation ==
  [][ obs'.saves >= 1 =>
        LET old == drawing.historyIndex
            new == drawing'.linesHistory
        IN  /\ Len(new) = old + 1 + obs'.saves
            /\ SubSeq(new, 1, old + 1) = SubSeq(drawing.linesHistory, 1, old + 1)
            /\ drawing'.historyIndex = Len(new) - 1
            /\ new[Len(new)] = drawing'.lines
    ]_vars

\* an event has committed one mutation and pushed one snapshot
C2_SingleReached ==
  /\ obs.saves = 1
  /\ drawing.historyIndex = Len(drawing.linesHistory) - 1
  /\ drawing.linesHistory[Len(drawing.linesHistory)] = drawing.lines

(* ------------------------ the drawing hook on its own ------------------ *)

\* strokes given to the hook by its callers
HookLines ==
  {mkLine(Pt(50, 150), Pt(60, 150), 4), mkLine(Pt(150, 150), Pt(200, 150), 8)}

\* one call of the hook per event, the component rendered in between
HookCall(event, d) ==
  /\ Ready
  /\ With([World EXCEPT !.d = d], LAMBDA w :
       /\ Apply(w)
       /\ obs' = ObsOf(event, w))
  /\ UNCHANGED <<pointer, gesture>>

\* the hook has room for more snapshots
HistoryRoom == Len(drawing.linesHistory) <= MaxHistory

\* setLines(prev => [...prev, line]): what onLinesAdd does
HookSetLines ==
  /\ HistoryRoom
  /\ \E line \in HookLines :
       HookCall("setLines", setLinesWithHistory(drawing, drawing, Append(drawing.lines, line)))

HookChangeLineThickness ==
  /\ HistoryRoom
  /\ \E index \in 0..(Len(drawing.lines) - 1) :
       HookCall("changeLineThickness",
                changeLineThickness(drawing, drawing, index, editor.imageSize.width,
                                    editor.imageSize.height))

HookDeleteLine ==
  /\ HistoryRoom
  /\ \E index \in 0..(Len(drawing.lines) - 1) :
       HookCall("deleteLine", deleteLine(drawing, drawing, index))

HookAddLinesIndividually ==
  /\ Len(drawing.linesHistory) < MaxHistory
  /\ \E a \in HookLines, b \in HookLines :
       a # b /\ HookCall("addLinesIndividually", addLinesIndividually(drawing, drawing, <<a, b>>))

HookUndo == HookCall("undo", undo(drawing, drawing))

HookResetLines ==
  /\ Len(drawing.linesHistory) > 1
  /\ HookCall("resetLines", resetLines(drawing))

NextDrawing ==
  \/ ImageLoad(ImageSizes)
  \/ HookSetLines
  \/ HookChangeLineThickness
  \/ HookDeleteLine
  \/ HookAddLinesIndividually
  \/ HookUndo
  \/ HookResetLines

SpecDrawing == Init /\ [][NextDrawing]_vars

C3_BoundaryReached ==
  /\ obs.event = "undo"
  /\ drawing.historyIndex = 0
  /\ Len(drawing.linesHistory) >= 2
  /\ drawing.lines = <<>>

(* ------------------- the fit effect on any rectangle -------------------- *)

\* the rectangles the container can have when the fit effect reads it
FitContainers ==
  {[width |-> cw, height |-> ch] : cw \in {0, 200, 400, 800}, ch \in {0, 150, 300, 600}}

\* the natural sizes an image element can report
FitImageSizes == {<<iw, ih>> : iw \in {0, 100, 400}, ih \in {0, 75, 300}}

\* the image element reports its natural size; the render that follows
\* runs the fit effect on the container's rectangle of that moment
FitLoad(sizes, containers) ==
  /\ editor.imageSize.width = 0
  /\ obs.event # "imageLoad"
  /\ \E size \in sizes, container \in containers :
       /\ ApplyIn(handleImageLoad(World, size[1], size[2]), container)
       /\ obs' = [mkObs("imageLoad") EXCEPT !.container = container]
  /\ UNCHANGED <<pointer, gesture>>

\* the close button: the parent drops the image and unmounts the editor;
\* the next image mounts a new one
CloseImage ==
  /\ drawing' = DrawingInit
  /\ touch' = TouchInit
  /\ touchView' = ViewOf(TouchInit)
  /\ zoomPan' = ZoomPanInit
  /\ editor' = EditorInit
  /\ faceDetection' = FaceDetectionInit
  /\ timers' = <<>>
  /\ rafQueue' = <<>>
  /\ pointer' = NoPointer
  /\ gesture' = GestureInit
  /\ obs' = mkObs("closeImage")

NextFit ==
  \/ FitLoad(FitImageSizes, FitContainers)
  \/ CloseImage

SpecFit == Init /\ [][NextFit]_vars

ZeroArea(size) == size.width = 0 \/ size.height = 0

\* image points whose round trip is examined
ProbePoints == {Pt(0, 0), Pt(200, 150), Pt(37, 291)}

\* p * scale + offset
screenPointFor(p, z) == PAdd(PScale(p, z.scale), z.position)

\* C20: when the image or the container has zero width or zero height at
\* the moment the fit is computed, the viewport ends with scale 1 and offset
\* (0,0).
C20_ZeroAreaFit ==
  (obs.event = "imageLoad" /\ (ZeroArea(editor.imageSize) \/ ZeroArea(obs.container)))
    => zoomPan.scale = R(1) /\ zoomPan.position = Pt(0, 0)

\* C11: in every viewport state the scale is a non-zero number and an image
\* point converted to the screen and back with getCanvasCoordinates is the
\* same image point.
C11_RoundTrip ==
  /\ IsFinite(zoomPan.scale) /\ zoomPan.scale.n # 0
  /\ IsFinite(zoomPan.position.x) /\ IsFinite(zoomPan.position.y)
  /\ \A p \in ProbePoints :
       CanvasPoint(screenPointFor(p, zoomPan), zoomPan.scale, zoomPan.position) = p

(* --------------------- input during an animation ----------------------- *)

\* the events that are user input
InputEvents ==
  {"touchStart", "touchMove", "touchEnd", "secondTouchStart", "pinchMove",
   "secondTouchEnd", "wheel", "mouseDown", "mouseMove", "mouseUp"}

\* C12: while isAnimating is true no user input event changes the viewport
\* scale or offset, the interaction mode or the stroke list, nor requests a
\* frame callback that will write the viewport.
C12_InputIgnoredWhileAnimating ==
  [][zoomPan.isAnimating =>
       /\ (obs'.event \in InputEvents =>
             /\ zoomPan'.scale = zoomPan.scale
             /\ zoomPan'.position = zoomPan.position
             /\ drawing'.drawingMode = drawing.drawingMode
             /\ touch'.currentMode = touch.currentMode
             /\ drawing'.lines = drawing.lines
             /\ rafQueue' = rafQueue)]_vars

(* ------------------------- the double-tap toggle ----------------------- *)

\* the last one has a fit scale of 1/200 in the 400x300 container
ZoomImageSizes == {<<400, 300>>, <<100, 75>>, <<80000, 60000>>}

ZoomTapXs == {100, 300}

\* zoomPan.handleDoubleTap(x, y), as handleTouchEnd calls it for the second
\* tap of a double tap
HookDoubleTap(xs) ==
  /\ Ready
  /\ pointer.gestures < MaxGestures
  /\ \E x \in xs :
       With(handleDoubleTap(Closure, World, Pt(x, TouchY)), LAMBDA w :
         /\ Apply(w)
         /\ obs' = [ObsOf("doubleTap", w) EXCEPT
                      !.zoomStarted = (w.rq # rafQueue),
                      !.frames = <<[kind |-> "tap", point |-> Pt(x, TouchY)]>>])
  /\ pointer' = [pointer EXCEPT !.gestures = @ + 1]
  /\ UNCHANGED gesture

\* the wheel is turned between animations, on the images of ordinary size
\* (the fractions of the largest image leave TLC's integers)
OrdinaryImage == editor.imageSize.width <= Container.width

NextZoom ==
  \/ ImageLoad(ZoomImageSizes)
  \/ HookDoubleTap(ZoomTapXs)
  \/ ~zoomPan.isAnimating /\ OrdinaryImage /\ Wheel(WheelDeltas, WheelXs)
  \/ Tick
  \/ RunFrame

SpecZoom == Init /\ [][NextZoom]_vars

\* the viewport the fit effect computed
FitView(z) == z.scale = z.initialScaleRef /\ z.position = z.initialPositionRef

\* the zoomed-in scale differs from the fit scale by the tolerance or more
ZoomedIsApart(z) ==
  RLe(INITIAL_SCALE_TOLERANCE,
      RMul(z.initialScaleRef, RSub(DOUBLE_TAP_ZOOM_FACTOR, R(1))))

\* a double tap that is not ignored
DoubleTapNow == obs'.event = "doubleTap" /\ ~zoomPan.isAnimating

\* the target of the animation the event started
TargetStarted ==
  [scale |-> rafQueue'[Len(rafQueue')].targetScale,
   position |-> rafQueue'[Len(rafQueue')].targetPosition]

C13_StuckReached ==
  /\ obs.event = "frame"
  /\ ~zoomPan.isAnimating
  /\ ~ZoomedIsApart(zoomPan)
  /\ zoomPan.scale = RMul(zoomPan.initialScaleRef, DOUBLE_TAP_ZOOM_FACTOR)
  /\ pointer.gestures = 2
  /\ pointer.wheels = 0

(* ----------------------- two fingers and the timers -------------------- *)

MultiXs == {100, 130}

\* the two fingers spread
MultiPinchXs == {<<80, 220>>}

\* gestures of a run with two fingers
MaxMultiGestures == 2

NextMulti ==
  \/ ImageLoad(ImageSizes)
  \/ pointer.gestures < MaxMultiGestures /\ TouchStart(MultiXs)
  \/ NoContact /\ ResetView
  \/ TouchMove(MultiXs)
  \/ SecondTouchStart(SecondXs)
  \/ PinchMove(MultiPinchXs)
  \/ SecondTouchEnd
  \/ TouchEnd
  \/ Tick
  \/ FireTimer
  \/ RunFrame

SpecMulti == Init /\ [][NextMulti]_vars

\* a touch start or touch move that reports two or more contacts
TwoContactEvent ==
  obs'.event \in {"touchStart", "touchMove"} /\ Len(pointer'.touches) >= 2

\* positioning or drawing
SingleFingerMode(t, d) ==
  \/ t.currentMode \in {"adjust", "draw"}
  \/ d.drawingMode \in {"adjust", "draw"}

\* C14 as stated: every touch event with two or more contacts sets the mode
\* to 'move' and cancels the classification timer, and from then until
\* every contact is lifted the mode is never positioning or drawing.
C14_TwoContactsAsStated ==
  [][ /\ TwoContactEvent =>
           /\ touch'.currentMode = "move"
           /\ drawing'.drawingMode = "move"
           /\ \A i \in 1..Len(timers') : timers'[i].kind # "modeCheck"
      /\ gesture'.g.multi => ~SingleFingerMode(touch', drawing')
    ]_vars

\* C14: a touch start with two or more contacts that arrives while no
\* animation is in flight sets the mode to 'move' and leaves no classification
\* or draw timer pending; from then until every contact is lifted the mode
\* is never positioning or drawing and no stroke is opened, even while one
\* finger remains down and moves.
C14_TwoContactsPan ==
  [][ /\ (TwoContactEvent /\ obs'.event = "touchStart" /\ ~zoomPan.isAnimating) =>
           /\ touch'.currentMode = "move"
           /\ drawing'.drawingMode = "move"
           /\ timers' = <<>>
      /\ gesture'.g.multi =>
           /\ ~SingleFingerMode(touch', drawing')
           /\ touch'.currentMode = "move"
           /\ timers' = <<>>
           /\ (drawing'.isDrawing => drawing.isDrawing)
    ]_vars

\* after two contacts one finger remains down and has moved
C14_Witness ==
  /\ gesture.g.multi
  /\ Len(pointer.touches) = 1
  /\ obs.event = "touchMove"
  /\ touch.currentMode = "move"

\* the second contact arrived while the classification timer was pending
C14_CancelReached ==
  /\ gesture.g.multi
  /\ Len(pointer.touches) = 2
  /\ obs.event = "touchStart"
  /\ ~gesture.g.fired
  /\ gesture.g.accepted

\* C15: a second contact that arrives after the gesture entered drawing, or
\* while a stroke is held for moving, leaves the mode, the loupe and the held
\* stroke as they are and starts no pinch.
C15_SecondContactKeepsDrawing ==
  [][ (/\ obs'.event = "touchStart"
       /\ Len(pointer.touches) = 1 /\ Len(pointer'.touches) = 2
       /\ (touch.currentMode = "draw" \/ drawing.selectedLineIndex # NoIndex)) =>
        /\ touch'.currentMode = touch.currentMode
        /\ drawing'.drawingMode = drawing.drawingMode
        /\ drawing'.loupeState.visible = drawing.loupeState.visible
        /\ drawing'.selectedLineIndex = drawing.selectedLineIndex
        /\ ~touch'.isPinching
    ]_vars

\* C16: once every contact is lifted no classification or draw timer is
\* pending and the session is closed (mode none, anchor cleared), so until
\* the next touch start no timer callback changes the mode, shows the loupe
\* or opens a stroke.
C16_NoTimerAfterRelease ==
  [][ /\ pointer'.touches = <<>> =>
           /\ timers' = <<>>
           /\ touch'.currentMode = "none"
           /\ touch'.initialTouchPos = None
      /\ (pointer.touches = <<>> /\ pointer'.touches = <<>>) =>
           /\ drawing'.drawingMode = drawing.drawingMode
           /\ drawing'.loupeState = drawing.loupeState
           /\ drawing'.isDrawing = drawing.isDrawing
           /\ drawing'.currentLine = drawing.currentLine
           /\ drawing'.lines = drawing.lines
    ]_vars

\* the finger was lifted while the classification timer was pending
C16_Witness ==
  /\ obs.event = "touchEnd"
  /\ pointer.touches = <<>>
  /\ obs.g.accepted /\ ~obs.g.fired
  /\ ~obs.g.multi

\* the finger was lifted in positioning, the draw timer pending
C16_DrawTimerReached ==
  /\ obs.event = "touchEnd"
  /\ pointer.touches = <<>>
  /\ obs.modeAtRelease = "adjust"

(* ---------------------------- face detection --------------------------- *)

\* a face as far as createLineForFace reads it: the outer eye corners
\* (landmarks 36 and 45), here on one height, and the largest distance of
\* the eye contour from the line through them
mkFace(leftX, rightX, y, lid) ==
  [left |-> Pt(leftX, y), right |-> Pt(rightX, y), lid |-> R(lid)]

RECURSIVE FirstAtLeast(_, _, _)
\* thicknessOptions.find(option => option >= base) ?? the last option
FirstAtLeast(options, base, i) ==
  IF i > Len(options) THEN options[Len(options)]
  ELSE IF RLe(base, R(options[i])) THEN options[i]
  ELSE FirstAtLeast(options, base, i + 1)

\* dy = 0: Math.hypot(dx, dy) = |dx|, cos(angle) = sign(dx), sin(angle) = 0
createLineForFace(face, thicknessOptions) ==
  LET dx == RSub(face.right.x, face.left.x)
      length == RAbs(dx)
      extension == RDiv(length, R(5))
      cos == IF dx.n < 0 THEN R(-1) ELSE R(1)
      startX == RSub(face.left.x, RMul(extension, cos))
      endX == RAdd(face.right.x, RMul(extension, cos))
      baseThickness == RMax(RMul(face.lid, R(4)), R(2))
  IN  IF RLt(length, R(2)) THEN None
      ELSE Some(mkLine(Pt(Round(startX), Round(face.left.y)),
                       Pt(Round(endX), Round(face.right.y)),
                       FirstAtLeast(thicknessOptions, baseThickness, 1)))

generateLinesForFaces(faces, thicknessOptions) ==
  LET made == [i \in 1..Len(faces) |-> createLineForFace(faces[i], thicknessOptions)]
      kept == SelectSeq(made, IsSome)
  IN  [i \in 1..Len(kept) |-> Val(kept[i])]

\* the key string start.x:start.y:end.x:end.y:thickness
getLineKey(line) ==
  <<line.start.x, line.start.y, line.end.x, line.end.y, line.thickness>>

filterDuplicateLines(newLines, existingLines) ==
  SelectSeq(newLines,
            LAMBDA line : \A i \in 1..Len(existingLines) :
                            getLineKey(existingLines[i]) # getLineKey(line))

\* the call's promise is settled and the call has returned
Returned(f, i) == [f EXCEPT !.calls = RemoveAt(f.calls, i)]

\* handleDetectFaces: the click; detectFaces runs to its first await, with
\* the props and callbacks of the render the click happened in
handleDetectFaces(c, w) ==
  [w EXCEPT !.f = [w.f EXCEPT
     !.isAiDetectionLine = TRUE, !.isScanning = TRUE, !.isDetecting = TRUE,
     !.calls = Append(@, [stage |-> "detect", d |-> c.d, imageSize |-> c.e.imageSize,
                          existingLines |-> c.d.lines, batch |-> <<>>,
                          retry |-> w.f.showError])]]

\* detectFaces after detector.detect(blob) resolved with faces
detectResolved(w, i, faces) ==
  LET call == w.f.calls[i]
      f == [w.f EXCEPT !.detector = TRUE]
      stopped == [f EXCEPT !.isScanning = FALSE, !.isDetecting = FALSE]
      thicknessOptions ==
        SelectSeq(getThicknessOptions(call.imageSize.width, call.imageSize.height),
                  LAMBDA option : option > 0)
      eyeLines == generateLinesForFaces(faces, thicknessOptions)
      uniqueLines == filterDuplicateLines(eyeLines, call.existingLines)
  IN  IF faces = <<>>
      THEN [w EXCEPT !.f = Returned([stopped EXCEPT !.showNoFace = TRUE], i)]
      ELSE IF call.imageSize.width = 0 \/ call.imageSize.height = 0
      THEN [w EXCEPT !.f = Returned(f, i)]
      ELSE IF thicknessOptions = <<>>
      THEN [w EXCEPT !.f = Returned(f, i)]
      ELSE IF eyeLines = <<>>
      THEN [w EXCEPT !.f = Returned(f, i)]
      ELSE IF uniqueLines = <<>>
      THEN [w EXCEPT !.f = Returned([stopped EXCEPT !.isAiDetectionLine = TRUE], i)]
      ELSE [w EXCEPT !.f = [stopped EXCEPT
                              !.isAiDetectionLine = TRUE,
                              !.calls[i].stage = "animate",
                              !.calls[i].batch = uniqueLines]]

\* the catch block without the two flags
detectRejectedBusy(w, i, loaded) ==
  [w EXCEPT !.f = Returned([w.f EXCEPT !.showError = TRUE,
                                       !.detector = @ \/ loaded], i)]

\* the catch block of detectFaces; loaded tells whether the detector module
\* had been imported when the promise was rejected (ensureDetector forgets a
\* failed import, so the next call imports again)
detectRejected(w, i, loaded) ==
  [w EXCEPT !.f = Returned([w.f EXCEPT !.showError = TRUE, !.isScanning = FALSE,
                                       !.isDetecting = FALSE,
                                       !.detector = @ \/ loaded], i)]

\* the end of animateLines: onLinesAdd(tempGreenLines) is
\* setDrawingLines(prev => [...prev, ...lines]) of the render of the click
onLinesAdd(w, i) ==
  LET call == w.f.calls[i]
  IN  [w EXCEPT !.d = setLinesWithHistory(call.d, w.d, call.d.lines \o call.batch),
                !.f = Returned(w.f, i)]

hideError(w) == [w EXCEPT !.f.showError = FALSE]

\* clicks on the detect button in one run
MaxDetections == 2

FaceA == mkFace(100, 200, 100, 2)

FaceB == mkFace(250, 300, 200, 1)

\* eye corners one pixel apart: no line is made for it
FaceTiny == mkFace(100, 101, 100, 1)

\* what detector.detect can resolve with
Detections == {<<>>, <<FaceA>>, <<FaceA, FaceB>>, <<FaceTiny>>}

\* the detect button: disabled while isDetecting or before the image loaded
DetectFaces ==
  /\ Ready
  /\ ~faceDetection.isDetecting
  /\ pointer.gestures < MaxDetections
  /\ With(handleDetectFaces(Closure, World), LAMBDA w :
       /\ Apply(w)
       /\ obs' = ObsOf("detectFaces", w))
  /\ pointer' = [pointer EXCEPT !.gestures = @ + 1]
  /\ UNCHANGED gesture

DetectResolve ==
  \E i \in 1..Len(faceDetection.calls), faces \in Detections :
    /\ faceDetection.calls[i].stage = "detect"
    /\ With(detectResolved(World, i, faces), LAMBDA w :
         /\ Apply(w)
         /\ obs' = ObsOf("detectResolved", w))
    /\ UNCHANGED <<pointer, gesture>>

DetectReject ==
  \E i \in 1..Len(faceDetection.calls), loaded \in BOOLEAN :
    /\ faceDetection.calls[i].stage = "detect"
    /\ loaded \/ ~faceDetection.detector
    /\ With(detectRejected(World, i, loaded), LAMBDA w :
         /\ Apply(w)
         /\ obs' = [ObsOf("detectRejected", w) EXCEPT
                      !.retry = faceDetection.calls[i].retry])
    /\ UNCHANGED <<pointer, gesture>>

\* the animation of the batch has run to its end
AnimateDone ==
  \E i \in 1..Len(faceDetection.calls) :
    /\ faceDetection.calls[i].stage = "animate"
    /\ HistoryRoom
    /\ With(onLinesAdd(World, i), LAMBDA w :
         /\ Apply(w)
         /\ obs' = [ObsOf("linesAdd", w) EXCEPT
                      !.batch = faceDetection.calls[i].batch,
                      !.retry = faceDetection.calls[i].retry])
    /\ UNCHANGED <<pointer, gesture>>

HideError ==
  /\ faceDetection.showError
  /\ With(hideError(World), LAMBDA w :
       /\ Apply(w)
       /\ obs' = ObsOf("hideError", w))
  /\ UNCHANGED <<pointer, gesture>>

NextDetect ==
  \/ ImageLoad(ImageSizes)
  \/ HookSetLines
  \/ HookUndo
  \/ DetectFaces
  \/ DetectResolve
  \/ DetectReject
  \/ AnimateDone
  \/ HideError

SpecDetect == Init /\ [][NextDetect]_vars

\* C17: when a detection adds k >= 1 strokes the history grows by k
\* snapshots on top of the cursor, the i-th being the previous list with the
\* first i added strokes, and the cursor ends on the last.
C17_OneSnapshotPerStroke ==
  [][obs'.event = "linesAdd" =>
       LET k == Len(obs'.batch)
           base == drawing.historyIndex + 1
       IN  /\ Len(drawing'.linesHistory) = base + k
           /\ \A i \in 1..k :
                drawing'.linesHistory[base + i] =
                  drawing.lines \o SubSeq(obs'.batch, 1, i)
           /\ drawing'.historyIndex = drawing.historyIndex + k
           /\ drawing'.lines = drawing.lines \o obs'.batch
    ]_vars

\* C18: no stroke of a detection batch equals, in start, end and thickness,
\* a stroke that is in the stroke list when the batch is appended.
C18_NoDuplicateAppended ==
  [][obs'.event = "linesAdd" =>
       \A j \in 1..Len(obs'.batch), i \in 1..Len(drawing.lines) :
         getLineKey(drawing.lines[i]) # getLineKey(obs'.batch[j])
    ]_vars

C19_RejectedReached ==
  /\ obs.event = "detectRejected"
  /\ faceDetection.showError
  /\ Len(drawing.linesHistory) > 1

(* --------------------- one animation at a time (C21) ------------------- *)

\* the requested callbacks of animateToTarget's frame loop
AnimationFrames(rq) == SelectSeq(rq, LAMBDA f : f.kind = "animate")

\* the step is a request for an animated transition (the reset-view button,
\* or a tap that checkDoubleTap took for the second of a double tap) made
\* while an animation is in flight
RequestWhileAnimating ==
  /\ zoomPan.isAnimating
  /\ \/ obs'.event = "resetView" /\ zoomPan.isInitialized
     \/ obs'.event = "touchEnd" /\ obs'.dblTap

\* the viewport the request of the step asks for
RequestTarget ==
  IF obs'.event = "touchEnd" /\ atInitialScale(zoomPan)
  THEN doubleTapTarget(zoomPan, pointer.touches[1])
  ELSE [scale |-> zoomPan.initialScaleRef, position |-> zoomPan.initialPositionRef]

C21_TapIgnoredReached ==
  /\ obs.event = "touchEnd" /\ obs.dblTap /\ ~obs.zoomStarted
  /\ zoomPan.isAnimating

(* ------------------- the mode of a single-contact gesture -------------- *)

\* TouchMode, with the 'moveLine' of DrawingMode
TouchModes == {"none", "move", "adjust", "draw", "moveLine"}

\* the changes of mode the claim allows while the contact stays down
ModeSteps ==
  {<<"none", "move">>, <<"none", "adjust">>, <<"none", "moveLine">>,
   <<"adjust", "draw">>, <<"adjust", "move">>}

\* the step neither puts the finger down nor lifts it
SameContact == Len(pointer.touches) = 1 /\ Len(pointer'.touches) = 1

\* C22: while one contact stays down, currentMode is one of the modes and
\* changes only along none -> move, none -> adjust, none -> moveLine,
\* adjust -> draw and adjust -> move; so 'move', 'draw' and 'moveLine' are
\* kept until release, and 'none' and 'adjust' are not entered again.
C22_ModeOneWay ==
  [][ /\ touch'.currentMode \in TouchModes
      /\ SameContact =>
            \/ touch'.currentMode = touch.currentMode
            \/ <<touch.currentMode, touch'.currentMode>> \in ModeSteps
    ]_vars

\* a finger that rested into 'draw' has moved on, still in 'draw'
C22_Witness ==
  /\ obs.event = "touchMove"
  /\ touch.currentMode = "draw"
  /\ gesture.g.opened

\* the early exit: a finger classified as resting has left 'adjust' for
\* 'move' by moving
C22_EarlyExitReached ==
  /\ obs.event = "touchMove"
  /\ touch.currentMode = "move"
  /\ gesture.g.fired /\ ~gesture.g.farAtFire

(* ------------------------------ the mouse (C23) ------------------------ *)

\* mouse places: 3 px and 10 px from the first
MousePressXs == {50, 53, 60}

NextMouse ==
  \/ ImageLoad(ImageSizes)
  \/ MouseMove(MousePressXs)
  \/ MouseDown
  \/ MouseUp
  \/ Undo
  \/ Tick
  \/ FireTimer
  \/ RunFrame

SpecMouse == Init /\ [][NextMouse]_vars

\* the button has been down for LONG_PRESS_DURATION, the mouse has not been
\* farther than MOUSE_MOVE_THRESHOLD from the press point, and every due
\* timer callback has run
HeldLong ==
  /\ pointer.mouseDown
  /\ editor.mouseStartAge >= LONG_PRESS_DURATION
  /\ FirstDue(timers, 1) = 0
  /\ ~pointer.press.far

LongPressPending == \E i \in 1..Len(timers) : timers[i].kind = "longPress"

\* a stroke is open that starts at the image point of the press
OpenAtPress ==
  /\ drawing.isDrawing /\ IsSome(drawing.currentLine)
  /\ Val(drawing.currentLine).start = pointer.press.canvas

\* the step is a mouse move with the button down and a stroke open
MoveWhileOpen ==
  obs'.event = "mouseMove" /\ pointer.mouseDown /\ drawing.isDrawing

\* the stroke the step leaves open ends under the mouse
ExtendedToMouse ==
  /\ drawing'.isDrawing /\ IsSome(drawing'.currentLine)
  /\ Val(drawing'.currentLine).start = Val(drawing.currentLine).start
  /\ Val(drawing'.currentLine).end
       = CanvasPoint(Val(pointer'.mousePos), zoomPan.scale, zoomPan.position)

\* C23 as stated: a press held for LONG_PRESS_DURATION within the move
\* threshold has opened a stroke at the press point.
C23_LongPressAsStated == HeldLong => OpenAtPress

\* C23, amended: a press that did not land on a stroke and is held for
\* LONG_PRESS_DURATION within the move threshold has opened a stroke at the
\* press point, and a later move extends that stroke to the mouse; a press
\* on a stroke opens none; a move beyond the threshold before
\* LONG_PRESS_DURATION has passed cancels the timer and no stroke is opened
\* during that press.
C23_LongPress ==
  [][ /\ (HeldLong /\ ~pointer.press.onStroke => OpenAtPress)'
      /\ (pointer.mouseDown /\ pointer.press.onStroke =>
             ~drawing.isDrawing /\ ~LongPressPending)'
      /\ (pointer.mouseDown /\ pointer.press.farEarly =>
             ~drawing.isDrawing /\ ~LongPressPending)'
      /\ MoveWhileOpen => ExtendedToMouse
    ]_vars

\* a stroke opened by a long press has been extended by a move
C23_Witness ==
  /\ obs.event = "mouseMove"
  /\ HeldLong /\ ~pointer.press.onStroke /\ OpenAtPress
  /\ Val(drawing.currentLine).end # Val(drawing.currentLine).start

\* the mouse has moved 3 px during the press and the stroke was opened
C23_JitterReached ==
  /\ HeldLong /\ OpenAtPress
  /\ pointer.mousePos # pointer.press.pos

\* a press was cancelled by a move and has lasted LONG_PRESS_DURATION
C23_CancelledReached ==
  /\ pointer.mouseDown /\ pointer.press.farEarly
  /\ editor.mouseStartAge >= LONG_PRESS_DURATION
  /\ ~drawing.isDrawing

\* a press on a stroke has lasted LONG_PRESS_DURATION
C23_OnStrokeReached ==
  /\ HeldLong /\ pointer.press.onStroke /\ ~drawing.isDrawing

(* ---------------------- a touch that rests on a stroke ----------------- *)

\* the image point under the place where the finger went down
AnchorPoint == CanvasPoint(Val(gesture.g.startPos), zoomPan.scale, zoomPan.position)

\* the step is the classification callback of a single touch that went down
\* on a stroke and is within the click threshold of that place
ClassifiedOnStroke ==
  /\ obs'.event = "modeCheck"
  /\ Len(pointer.touches) = 1
  /\ gesture.g.accepted
  /\ ~gesture'.g.farAtFire
  /\ findLineAtPoint(drawing, AnchorPoint) # NoIndex

\* C24: when the classification timer fires for such a touch the mode becomes
\* 'moveLine', the stroke under the anchor is selected with the offset of its
\* centre from the anchor recorded, and the loupe is shown.
C24_MoveLineOnStroke ==
  [][ ClassifiedOnStroke =>
        /\ touch'.currentMode = "moveLine"
        /\ drawing'.drawingMode = "moveLine"
        /\ drawing'.loupeState.visible
        /\ drawing'.selectedLineIndex = findLineAtPoint(drawing, AnchorPoint)
        /\ drawing'.lineDragOffset
             = PSub(AnchorPoint,
                    Midpoint(drawing.lines[findLineAtPoint(drawing, AnchorPoint) + 1]))
    ]_vars

\* a touch that went down on a stroke has been classified: the stroke is
\* selected with its offset, the mode is 'adjust' and no loupe is shown
C24_AdjustReached ==
  /\ obs.event = "modeCheck"
  /\ Len(pointer.touches) = 1 /\ gesture.g.accepted /\ ~gesture.g.farAtFire
  /\ findLineAtPoint(drawing, AnchorPoint) # NoIndex
  /\ drawing.selectedLineIndex = findLineAtPoint(drawing, AnchorPoint)
  /\ touch.currentMode = "adjust"
  /\ ~drawing.loupeState.visible

(* ----------------------- a finger that rests and moves ----------------- *)

\* finger places 1, 2, 3 and 10 px apart
RestXs == {50, 52, 53, 60}

\* the gestures of one run of the resting finger
MaxRestGestures == 2

\* the number of those gestures in which the finger moves, and its moves
MaxRestMoveGestures == 1

MaxRestMoves == 4

NextRest ==
  \/ ImageLoad(ImageSizes)
  \/ pointer.gestures < MaxRestGestures /\ TouchStart(RestXs)
  \/ TouchMoveWithin(RestXs, MaxRestMoves, MaxRestMoveGestures)
  \/ TouchEnd
  \/ Tick
  \/ FireTimer
  \/ RunFrame

SpecRest == Init /\ [][NextRest]_vars

\* the step is the callback of a draw timer, run while the mode is 'adjust'
\* and the finger counts as stationary
DrawTimerFires(kinds) ==
  /\ obs'.event \in kinds
  /\ Len(pointer.touches) = 1
  /\ touch.currentMode = "adjust"
  /\ touch.isStationary

\* the thickness calculateDynamicThickness gives for the viewport
PolicyThickness ==
  getDynamicThickness(editor.imageSize.width, editor.imageSize.height,
    RDiv(RMul(R(Container.width), AUTO_THICKNESS_SCREEN_RATIO), zoomPan.scale))

\* the step sets the mode to 'draw' and opens a stroke at the anchor with
\* the thickness of the policy
OpensAtAnchor ==
  /\ touch'.currentMode = "draw"
  /\ drawing'.drawingMode = "draw"
  /\ drawing'.isDrawing
  /\ drawing'.currentLine = Some(mkLine(AnchorPoint, AnchorPoint, PolicyThickness))

\* C25: when a draw timer fires in 'adjust' with the finger stationary, the
\* mode becomes 'draw' and a stroke is opened at the anchor with the
\* thickness of the policy, for the timer armed on entering 'adjust' and for
\* the timer re-armed by a move.
C25_DrawTimerOpensStroke ==
  [][ DrawTimerFires({"adjustToDraw", "adjustToDrawMove"}) => OpensAtAnchor ]_vars

\* the re-armed timer has fired: the mode is 'draw', no stroke is open and
\* the drawing mode and the loupe are still those of 'adjust'
C25_RearmedReached ==
  /\ obs.event = "adjustToDrawMove"
  /\ touch.currentMode = "draw"
  /\ ~drawing.isDrawing
  /\ drawing.drawingMode = "adjust"

(* --------------------- rest before the draw mode ----------------------- *)

DrawTimerKinds == {"adjustToDraw", "adjustToDrawMove"}

DrawTimerPending(tm) == \E i \in 1..Len(tm) : tm[i].kind \in DrawTimerKinds

\* the step takes the mode from 'adjust' to 'draw'
EntersDraw == touch.currentMode = "adjust" /\ touch'.currentMode = "draw"

\* the step is a touch move in 'adjust' of more than 1 px from the previous
\* position
MovingUpdate ==
  /\ obs'.event = "touchMove"
  /\ touch.currentMode = "adjust"
  /\ Len(pointer.touches) = 1 /\ Len(pointer'.touches) = 1
  /\ RLt(R(1), DistSq(pointer'.touches[1], pointer.touches[1]))

\* C26: the mode goes from 'adjust' to 'draw' only when no move of more
\* than 1 px happened during the DRAW_MODE_DELAY before and the finger is
\* held stationary; such a move leaves no draw timer pending.
C26_DrawOnlyAfterRest ==
  [][ /\ EntersDraw => /\ gesture.g.rest >= DRAW_MODE_DELAY
                       /\ touch.isStationary
      /\ MovingUpdate => ~DrawTimerPending(timers') ]_vars

\* the first draw timer fired although the finger made moves of 1 px
C26_Witness ==
  /\ obs.event = "adjustToDraw"
  /\ touch.currentMode = "draw"
  /\ pointer.moves > 0

\* a move of more than 1 px in 'adjust' after the early-exit window cleared
\* the draw timer
C26_CancelledReached ==
  /\ obs.event = "touchMove"
  /\ touch.currentMode = "adjust"
  /\ ~touch.isStationary
  /\ ~DrawTimerPending(timers)
  /\ gesture.g.rest = 0
  /\ gesture.g.fired

(* ------------------------ rest leads to drawing ------------------------ *)

\* one gesture of a single finger; time passes, due timers and requested
\* frames run
MaxLiveGestures == 1

NextLive ==
  \/ ImageLoad(ImageSizes)
  \/ pointer.gestures < MaxLiveGestures /\ TouchStart(RestXs)
  \/ TouchMoveWithin(RestXs, MaxRestMoves, MaxLiveGestures)
  \/ TouchEnd
  \/ Tick
  \/ FireTimer
  \/ RunFrame

\* FireTimer is enabled exactly when a timer is due, and it removes that
\* timer
TimerDue == FirstDue(timers, 1) # 0

\* the browser lets time pass, runs every requested frame and every due
\* timer callback (weak fairness of FireTimer, written with its enabling
\* condition); the user's events are under no obligation
SpecLive ==
  /\ Init /\ [][NextLive]_vars
  /\ WF_vars(Tick) /\ WF_vars(RunFrame)
  /\ []<>(~TimerDue)

\* the finger is down in 'adjust' and has made no move of more than 1 px for
\* DRAW_MODE_DELAY
RestedInAdjust ==
  /\ Len(pointer.touches) = 1
  /\ touch.currentMode = "adjust"
  /\ gesture.g.rest >= DRAW_MODE_DELAY

\* the mode is 'draw', or the user ended the rest by lifting or moving
DrawOrRestEnded ==
  \/ touch.currentMode = "draw"
  \/ pointer.touches = <<>>
  \/ gesture.g.rest < DRAW_MODE_DELAY

\* C27: a finger that stays down in 'adjust' without a move of more than
\* 1 px for DRAW_MODE_DELAY eventually gets the mode 'draw', also after it
\* first moved and then came to rest, with or without touch moves delivered
\* while it rests.
C27_RestLeadsToDraw == RestedInAdjust ~> DrawOrRestEnded

\* it does while a draw timer is pending
C27_PendingLeadsToDraw ==
  (RestedInAdjust /\ DrawTimerPending(timers)) ~> DrawOrRestEnded

\* the finger has rested for DRAW_MODE_DELAY after a move and no timer is
\* pending
C27_StuckReached ==
  /\ RestedInAdjust
  /\ timers = <<>>
  /\ rafQueue = <<>>
  /\ gesture.g.moved = FALSE
  /\ pointer.moves > 0

(* ----------------------- early exit from 'adjust' ---------------------- *)

\* the step is a touch move in 'adjust'
UpdateInAdjust ==
  /\ obs'.event = "touchMove"
  /\ touch.currentMode = "adjust"
  /\ Len(pointer.touches) = 1 /\ Len(pointer'.touches) = 1

\* the new position is farther than 2 x CLICK_DISTANCE_THRESHOLD from the
\* anchor
FarFromAnchor ==
  RLt(R((CLICK_DISTANCE_THRESHOLD * 2) * (CLICK_DISTANCE_THRESHOLD * 2)),
      DistSq(pointer'.touches[1], Val(gesture.g.startPos)))

InEarlyWindow ==
  IsSome(touch.adjustModeStartAge) /\ Val(touch.adjustModeStartAge) < EARLY_MOVE_WINDOW

\* an update within the window and beyond the distance
EarlyExitUpdate == UpdateInAdjust /\ InEarlyWindow /\ FarFromAnchor

\* the mode of a finger that is down is 'move' and a stroke is open or was
\* opened in this gesture
StrokeWhilePanning ==
  /\ Len(pointer.touches) = 1
  /\ touch.currentMode = "move"
  /\ drawing.isDrawing \/ gesture.g.opened

\* the early exit without the loupe: the update sets the mode 'move' and
\* leaves no draw timer pending, no stroke is opened while the mode is
\* 'move', and past the window no update takes 'adjust' to 'move'
C28_EarlyExit ==
  [][ /\ EarlyExitUpdate => /\ touch'.currentMode = "move"
                            /\ ~DrawTimerPending(timers')
      /\ ~StrokeWhilePanning'
      /\ (UpdateInAdjust /\ ~InEarlyWindow) => touch'.currentMode # "move" ]_vars

\* C28: in 'adjust', an update within 200 ms of entering it and farther
\* than 2 x CLICK_DISTANCE_THRESHOLD from the anchor sets the mode 'move',
\* cancels the draw timer and hides the loupe, and no stroke is opened later
\* in the gesture; past the 200 ms no movement takes 'adjust' to 'move'.
C28_EarlyExitHidesLoupe ==
  [][ /\ EarlyExitUpdate => /\ touch'.currentMode = "move"
                            /\ ~DrawTimerPending(timers')
                            /\ ~drawing'.loupeState.visible
      /\ ~StrokeWhilePanning'
      /\ (UpdateInAdjust /\ ~InEarlyWindow) => touch'.currentMode # "move" ]_vars

\* after the early exit the mode is 'move' and the loupe is still shown,
\* at the new position
C28_LoupeLeftReached ==
  /\ obs.event = "touchMove"
  /\ touch.currentMode = "move"
  /\ drawing.loupeState.visible
  /\ drawing.drawingMode = "adjust"
  /\ drawing.loupeState.position = pointer.touches[1]

\* a move beyond the distance past the window: the mode is still 'adjust'
C28_LateMoveReached ==
  /\ obs.event = "touchMove"
  /\ touch.currentMode = "adjust"
  /\ Val(touch.adjustModeStartAge) >= EARLY_MOVE_WINDOW
  /\ RLt(R((CLICK_DISTANCE_THRESHOLD * 2) * (CLICK_DISTANCE_THRESHOLD * 2)),
         DistSq(pointer.touches[1], Val(gesture.g.startPos)))

(* ------------------------- one timer of a kind ------------------------- *)

PendingOf(tm, kinds) == {i \in 1..Len(tm) : tm[i].kind \in kinds}

\* C29: at most one classification timer and at most one draw timer are
\* pending, and every pending one is the one its ref holds: arming never
\* leaves an earlier timer of the same kind behind.
C29_OneTimerOfAKind ==
  /\ Cardinality(PendingOf(timers, {"modeCheck"})) <= 1
  /\ Cardinality(PendingOf(timers, DrawTimerKinds)) <= 1
  /\ \A i \in PendingOf(timers, {"modeCheck"} \cup DrawTimerKinds) : timers[i].held

\* in the second gesture a draw timer is pending that a move re-armed
\* after the one armed with 'adjust' had been cleared
C29_Witness ==
  /\ pointer.gestures = 2
  /\ Len(pointer.touches) = 1
  /\ \E i \in 1..Len(timers) : timers[i].kind = "adjustToDrawMove"

\* a finger went down again while the classification timer of the gesture
\* before would still be pending, had the release not cleared it
C29_QuickRestartReached ==
  /\ obs.event = "touchStart"
  /\ pointer.gestures = 2
  /\ gesture.lastTap.tapAge = 0
  /\ Cardinality(PendingOf(timers, {"modeCheck"})) = 1

(* --------------------------- after the gesture ------------------------- *)

\* no finger is down and the mouse button is up
NoContactDown == pointer.touches = <<>> /\ ~pointer.mouseDown

GestureTimerKinds == {"modeCheck", "longPress"} \cup DrawTimerKinds

\* the mode is idle, the loupe is hidden, no stroke is open or selected,
\* panning is stopped and no gesture timer is pending
AtRest ==
  /\ touch.currentMode = "none"
  /\ ~drawing.loupeState.visible
  /\ ~drawing.isDrawing
  /\ drawing.selectedLineIndex = NoIndex
  /\ ~zoomPan.isDragging
  /\ PendingOf(timers, GestureTimerKinds) = {}

\* the step is a mouse move without a press
FreeMouseMove == obs'.event = "mouseMove" /\ NoContactDown

\* C30: after a gesture ends (all fingers lifted or the mouse button
\* released) the mode is idle, the loupe hidden, no stroke open or selected,
\* panning stopped and no gesture timer pending, so a pointer move without
\* a new press changes neither a stroke nor the viewport.
C30_RestAfterGesture ==
  [][ /\ NoContactDown' => AtRest'
      /\ FreeMouseMove => /\ drawing'.lines = drawing.lines
                          /\ zoomPan'.position = zoomPan.position
                          /\ zoomPan'.scale = zoomPan.scale ]_vars

\* the same without the selection: everything but selectedLineIndex is
\* reset, and a free move of the mouse leaves the viewport alone
C30_RestButSelection ==
  [][ /\ NoContactDown' =>
            /\ touch'.currentMode = "none"
            /\ ~drawing'.loupeState.visible
            /\ ~drawing'.isDrawing
            /\ ~zoomPan'.isDragging
            /\ PendingOf(timers', GestureTimerKinds) = {}
      /\ FreeMouseMove => /\ zoomPan'.position = zoomPan.position
                          /\ zoomPan'.scale = zoomPan.scale ]_vars

\* a mouse move without a press has moved a stroke
C30_StrokeMovedReached ==
  /\ obs.event = "mouseMove"
  /\ NoContactDown
  /\ drawing.selectedLineIndex # NoIndex
  /\ Len(drawing.lines) = 1
  /\ drawing.linesHistory[Len(drawing.linesHistory)] # drawing.lines

(* ------------------------- the two-finger gesture ---------------------- *)

\* the first finger goes down at 100, the second at 200 or 240; then the two
\* spread with the centre moved by 5 (80, 230), spread about the centre
\* (80, 220), shift (130, 230), shift and spread (110, 240), or barely move
\* (98, 204)
PinchStartXs == {200, 240}

PinchPairs == {<<80, 230>>, <<80, 220>>, <<130, 230>>, <<110, 240>>, <<98, 204>>}

MaxPinchGestures == 1

NextPinch ==
  \/ ImageLoad(ViewImageSizes)
  \/ pointer.gestures < MaxPinchGestures /\ TouchStart(ViewXs)
  \/ SecondTouchStartWithin(PinchStartXs, MaxMoves)
  \/ PinchMove(PinchPairs)
  \/ SecondTouchEnd
  \/ TouchEnd
  \/ RunFrame

SpecPinch == Init /\ [][NextPinch]_vars

\* the step is a two-finger move that the pinch branch of handleTouchMove
\* handles
PinchUpdate ==
  /\ obs'.event = "touchMove"
  /\ Len(pointer.touches) = 2 /\ Len(pointer'.touches) = 2
  /\ touchView.isPinching /\ touch.isPinching
  /\ ~zoomPan.isAnimating
  /\ IsSome(touch.lastTouchDistance) /\ IsSome(touch.lastPinchCenter)

\* the change of the distance between the fingers and the square of the
\* displacement of their centre since the second finger went down
DistanceChangeNow ==
  RAbs(RSub(getTouchDistance(pointer'.touches[1], pointer'.touches[2]),
            Val(touch.initialPinchDistance)))

CenterChangeSqNow ==
  DistSq(getPinchCenter(pointer'.touches), Val(touch.initialPinchCenter))

\* distanceChange > 1.5 * centerChange
MostlyDistance == RLt(RMul(Q(9, 4), CenterChangeSqNow), RSq(DistanceChangeNow))

DistanceOver == RLt(R(PINCH_DISTANCE_THRESHOLD), DistanceChangeNow)

CenterOver == RLt(R(PINCH_CENTER_THRESHOLD * PINCH_CENTER_THRESHOLD), CenterChangeSqNow)

\* the frame callbacks the step requested
Requested == SubSeq(rafQueue', Len(rafQueue) + 1, Len(rafQueue'))

\* one zoom about the centre of the fingers, by the ratio of the distances
ZoomRequested ==
  /\ Len(Requested) = 1
  /\ Requested[1].kind = "pinch"
  /\ Requested[1].point = getPinchCenter(pointer'.touches)
  /\ Requested[1].factor =
       RMul(zoomPan.scale,
            RDiv(getTouchDistance(pointer'.touches[1], pointer'.touches[2]),
                 Val(touch.lastTouchDistance)))

\* one pan by the displacement of the centre
PanRequested ==
  /\ Len(Requested) = 1
  /\ Requested[1].kind = "pan"
  /\ Requested[1].point = PSub(getPinchCenter(pointer'.touches),
                               Val(touch.lastPinchCenter))

\* what the update applies follows the gesture type it leaves
AppliesByType ==
  /\ touch'.gestureType = "pinch" => ZoomRequested
  /\ touch'.gestureType = "pan" => PanRequested
  /\ touch'.gestureType = "none" => Requested = <<>>

\* C31 as stated: an unclassified two-finger gesture becomes a pinch exactly
\* when the distance change exceeds 1.5 times the centre displacement and
\* both exceed their thresholds, and a pan otherwise; a pinch update zooms
\* about the centre by the ratio of the distances and does not pan; an
\* update applies at most one of zoom and pan.
C31_PinchAsStated ==
  [][ PinchUpdate =>
        /\ touch.gestureType = "none" =>
              touch'.gestureType =
                 IF MostlyDistance /\ DistanceOver /\ CenterOver THEN "pinch" ELSE "pan"
        /\ AppliesByType ]_vars

\* C31: the gesture stays unclassified while neither change exceeds its
\* threshold; once one does, it is a pinch when the distance change exceeds
\* 1.5 times the centre displacement and a pan otherwise; what is applied
\* follows the type, at most one of zoom and pan.
C31_Pinch ==
  [][ PinchUpdate =>
        /\ touch.gestureType = "none" =>
              touch'.gestureType =
                 IF DistanceOver \/ CenterOver
                 THEN IF MostlyDistance THEN "pinch" ELSE "pan"
                 ELSE "none"
        /\ AppliesByType ]_vars

\* distance 100 -> 150 with the centre moved by 5: a pinch, a zoom by 3/2
\* about (155, TouchY) requested
C31_Witness ==
  /\ obs.event = "touchMove"
  /\ pointer.touches = <<Pt(80, TouchY), Pt(230, TouchY)>>
  /\ touch.gestureType = "pinch"
  /\ Val(touch.initialPinchDistance) = R(100)
  /\ Val(touch.initialPinchCenter) = Pt(150, TouchY)
  /\ Len(rafQueue) = 1
  /\ rafQueue[1].kind = "pinch"
  /\ rafQueue[1].point = Pt(155, TouchY)
  /\ rafQueue[1].factor = RMul(zoomPan.scale, Q(3, 2))

\* both changes exceed their thresholds and the gesture is a pan
C31_PanReached ==
  /\ obs.event = "touchMove"
  /\ pointer.touches = <<Pt(110, TouchY), Pt(240, TouchY)>>
  /\ touch.gestureType = "pan"
  /\ Val(touch.initialPinchDistance) = R(100)
  /\ Len(rafQueue) = 1 /\ rafQueue[1].kind = "pan"

\* neither change exceeds its threshold: unclassified, nothing requested
C31_UnclassifiedReached ==
  /\ obs.event = "touchMove"
  /\ pointer.touches = <<Pt(98, TouchY), Pt(204, TouchY)>>
  /\ touch.gestureType = "none"
  /\ rafQueue = <<>>

\* the two-finger gesture has been classified
Classified == touch.gestureType \in {"pinch", "pan"}

\* C32: once a two-finger gesture is classified as pinch or pan, the type
\* does not change until every contact is lifted, also when one finger is
\* lifted and a finger goes down again while the other stays.
C32_Sticky ==
  [][ (Classified /\ pointer'.touches # <<>>) =>
         touch'.gestureType = touch.gestureType ]_vars

\* the type is kept by every step but a touch start
C32_StickyBetweenStarts ==
  [][ (Classified /\ pointer'.touches # <<>> /\ obs'.event # "touchStart") =>
         touch'.gestureType = touch.gestureType ]_vars

\* a gesture that zoomed as a pinch pans after its second finger was lifted
\* and put down again
C32_ReclassifiedReached ==
  /\ obs.event = "touchMove"
  /\ pointer.gestures = 1
  /\ Len(pointer.touches) = 2
  /\ touch.gestureType = "pan"
  /\ zoomPan.isInitialized
  /\ zoomPan.scale # zoomPan.initialScaleRef

(* ------------------------- the loupe and the mode ---------------------- *)

\* the drawing mode that goes with a touch mode
DrawingModeOf(mode) ==
  IF mode \in {"none", "move"} THEN "move" ELSE mode

\* C33: the loupe is visible exactly when the touch mode is 'adjust', 'draw'
\* or 'moveLine', loupeState.mode is the drawing mode, and the drawing mode
\* is the one that goes with the touch mode.
C33_LoupeFollowsMode ==
  /\ drawing.loupeState.visible <=> touch.currentMode \in {"adjust", "draw", "moveLine"}
  /\ drawing.loupeState.mode = drawing.drawingMode
  /\ drawing.drawingMode = DrawingModeOf(touch.currentMode)

\* what holds of the loupe and the drawing mode alone: the loupe is visible
\* exactly when the drawing mode is not 'move', and a hidden loupe has the
\* mode 'move'
C33_LoupeFollowsDrawingMode ==
  /\ drawing.loupeState.visible <=> drawing.drawingMode # "move"
  /\ ~drawing.loupeState.visible => drawing.loupeState.mode = "move"

\* the touch mode is 'adjust' and the loupe is hidden: the finger went down
\* on a stroke
C33_HiddenInAdjustReached ==
  /\ touch.currentMode = "adjust"
  /\ Len(pointer.touches) = 1
  /\ ~drawing.loupeState.visible
  /\ drawing.drawingMode = "move"
  /\ drawing.selectedLineIndex # NoIndex

\* the drawing mode is 'draw' and the loupe still has the mode 'adjust'
C33_LoupeModeBehindReached ==
  /\ drawing.loupeState.visible
  /\ drawing.drawingMode = "draw"
  /\ drawing.loupeState.mode = "adjust"

(* ------------------------- the place of the loupe ---------------------- *)

DISTANCE_FROM_FINGER == 30

LOUPE_RADIUS == 50

\* the margin getLoupePosition keeps to the edges of the window
LOUPE_MARGIN == 10

\* the candidates of findBestLoupePosition, in its order
LoupePositions ==
  <<"top-left", "top-left-top", "top", "top-top-right", "top-right",
    "bottom-right", "bottom-left">>

\* distanceToCenter * (cos, sin) of POSITION_ANGLES[relativePosition] with
\* distanceToCenter = 80, in 1/100 px; fingers are at whole pixels, so every
\* comparison with a whole bound comes out as in floating point. For 270
\* degrees Math.cos gives -1.8e-16, a negative number no larger than any
\* fraction of a pixel: -1/1000 stands for the product.
LoupeOffset(relativePosition) ==
  IF relativePosition = "top-left" THEN [x |-> Q(-5657, 100), y |-> Q(-5657, 100)]
  ELSE IF relativePosition = "top-left-top" THEN [x |-> Q(-3061, 100), y |-> Q(-7391, 100)]
  ELSE IF relativePosition = "top"
  THEN [x |-> Q(-1, 1000), y |-> R(-(DISTANCE_FROM_FINGER + LOUPE_RADIUS))]
  ELSE IF relativePosition = "top-top-right" THEN [x |-> Q(3061, 100), y |-> Q(-7391, 100)]
  ELSE IF relativePosition = "top-right" THEN [x |-> Q(5657, 100), y |-> Q(-5657, 100)]
  ELSE IF relativePosition = "bottom-right" THEN [x |-> Q(5657, 100), y |-> Q(5657, 100)]
  ELSE [x |-> Q(-5657, 100), y |-> Q(5657, 100)]

calculateLoupeCenterPosition(fingerPosition, relativePosition) ==
  PAdd(fingerPosition, LoupeOffset(relativePosition))

calculateLoupeTopLeftPosition(fingerPosition, relativePosition) ==
  PSub(calculateLoupeCenterPosition(fingerPosition, relativePosition),
       Pt(LOUPE_RADIUS, LOUPE_RADIUS))

checkLoupePositionFits(fingerPosition, relativePosition, viewportWidth, viewportHeight) ==
  LET centerPosition == calculateLoupeCenterPosition(fingerPosition, relativePosition)
      left == RLe(R(0), RSub(centerPosition.x, R(LOUPE_RADIUS)))
      right == RLe(RAdd(centerPosition.x, R(LOUPE_RADIUS)), R(viewportWidth))
      top == RLe(R(0), RSub(centerPosition.y, R(LOUPE_RADIUS)))
      bottom == RLe(RAdd(centerPosition.y, R(LOUPE_RADIUS)), R(viewportHeight))
  IN  IF relativePosition \in {"top-left", "top-left-top"} THEN left /\ top
      ELSE IF relativePosition = "top" THEN left /\ right /\ top
      ELSE IF relativePosition \in {"top-top-right", "top-right"} THEN right /\ top
      ELSE IF relativePosition = "bottom-right" THEN right /\ bottom
      ELSE IF relativePosition = "bottom-left" THEN left /\ bottom
      ELSE left /\ right /\ top /\ bottom

RECURSIVE findLoupePositionFrom(_, _, _, _)
findLoupePositionFrom(i, fingerPosition, viewportWidth, viewportHeight) ==
  IF i > Len(LoupePositions) THEN "top-left"
  ELSE IF checkLoupePositionFits(fingerPosition, LoupePositions[i],
                                 viewportWidth, viewportHeight)
  THEN LoupePositions[i]
  ELSE findLoupePositionFrom(i + 1, fingerPosition, viewportWidth, viewportHeight)

findBestLoupePosition(fingerPosition, viewportWidth, viewportHeight) ==
  findLoupePositionFrom(1, fingerPosition, viewportWidth, viewportHeight)

\* a plausible slip: the place is not brought back into the window
getLoupePositionUnclamped(position, relativePosition, window) ==
  calculateLoupeTopLeftPosition(position, relativePosition)

\* Loupe's getLoupePosition: the top-left corner, brought back into the
\* window on each side in turn
getLoupePosition(position, relativePosition, window) ==
  LET loupeSize == LOUPE_RADIUS * 2
      p == calculateLoupeTopLeftPosition(position, relativePosition)
      clamp(v, size) ==
        With(IF RLt(R(size), RAdd(v, R(loupeSize)))
             THEN R(size - loupeSize - LOUPE_MARGIN) ELSE v, LAMBDA v1 :
          IF RLt(v1, R(LOUPE_MARGIN)) THEN R(LOUPE_MARGIN) ELSE v1)
  IN  [x |-> clamp(p.x, window.width), y |-> clamp(p.y, window.height)]

\* startAdjustMode with the relative position it stores
startAdjustModeIn(p, coords, window) ==
  [p EXCEPT !.drawingMode = "adjust",
            !.loupeState = [visible |-> TRUE, position |-> coords,
                            mode |-> "adjust", isStationary |-> TRUE,
                            relativePosition |->
                               findBestLoupePosition(coords, window.width, window.height)],
            !.dirty = TRUE]

\* updateLoupePosition: ...prev keeps the relative position
updateLoupePositionIn(c, p, coords, isStationary) ==
  IF ~p.loupeState.visible THEN p
  ELSE [p EXCEPT !.loupeState.position = coords,
                 !.loupeState.mode = c.drawingMode,
                 !.loupeState.isStationary =
                    IF c.drawingMode = "adjust" THEN isStationary ELSE FALSE,
                 !.dirty = TRUE]

\* window sizes [width, height] and finger places of the loupe
LoupeWindows == {<<400, 300>>, <<320, 480>>, <<400, 200>>}

LoupeXs == {0, 10, 50, 100, 107, 200, 320, 400}

LoupeYs == {0, 100, 107, 124, 150, 200, 300, 480}

InWindow(x, y) == x <= pointer.window.width /\ y <= pointer.window.height

\* the browser window gets another size while no loupe is shown
Resize(sizes) ==
  /\ ~drawing.loupeState.visible
  /\ \E size \in sizes :
       /\ pointer.window # [width |-> size[1], height |-> size[2]]
       /\ pointer' = [pointer EXCEPT !.window = [width |-> size[1], height |-> size[2]]]
  /\ obs' = mkObs("resize")
  /\ UNCHANGED <<drawing, touch, touchView, zoomPan, editor, faceDetection, timers,
                 rafQueue, gesture>>

\* drawing.startAdjustMode(coords) with the finger at coords
HookStartAdjustMode ==
  /\ ~drawing.loupeState.visible
  /\ \E x \in LoupeXs, y \in LoupeYs :
       /\ InWindow(x, y)
       /\ HookCall("startAdjustMode", startAdjustModeIn(drawing, Pt(x, y), pointer.window))

\* drawing.updateLoupePosition(coords, isStationary) with the finger at coords
HookUpdateLoupePosition ==
  /\ drawing.loupeState.visible
  /\ \E x \in LoupeXs, y \in LoupeYs :
       /\ InWindow(x, y)
       /\ Pt(x, y) # drawing.loupeState.position
       /\ HookCall("updateLoupePosition",
                   updateLoupePositionIn(drawing, drawing, Pt(x, y), FALSE))

HookResetMode ==
  /\ drawing.loupeState.visible
  /\ HookCall("resetMode", resetMode(drawing))

NextLoupe ==
  \/ ImageLoad(ImageSizes)
  \/ Resize(LoupeWindows)
  \/ HookStartAdjustMode
  \/ HookUpdateLoupePosition
  \/ HookResetMode

SpecLoupe == Init /\ [][NextLoupe]_vars

\* the top-left corner of the loupe on the screen
LoupeCorner ==
  getLoupePosition(drawing.loupeState.position, drawing.loupeState.relativePosition,
                   pointer.window)

\* the square of side 2 * LOUPE_RADIUS at corner lies in the window
RectInWindow(corner) ==
  /\ RLe(R(0), corner.x) /\ RLe(R(0), corner.y)
  /\ RLe(RAdd(corner.x, R(LOUPE_RADIUS * 2)), R(pointer.window.width))
  /\ RLe(RAdd(corner.y, R(LOUPE_RADIUS * 2)), R(pointer.window.height))

\* some candidate passes checkLoupePositionFits for the finger
SomeFits(position) ==
  \E i \in 1..Len(LoupePositions) :
     checkLoupePositionFits(position, LoupePositions[i],
                            pointer.window.width, pointer.window.height)

\* C34: for a finger inside the window, the loupe's square on the screen,
\* placed by findBestLoupePosition and calculateLoupeTopLeftPosition, lies
\* within the window, also when no candidate fits and the default is used.
C34_LoupeInWindow ==
  drawing.loupeState.visible => RectInWindow(LoupeCorner)

\* no candidate fits the finger where the loupe was shown: the default is
\* used and the corner was brought back into the window
C34_Witness ==
  /\ obs.event = "startAdjustMode"
  /\ drawing.loupeState.visible
  /\ ~SomeFits(drawing.loupeState.position)
  /\ drawing.loupeState.relativePosition = "top-left"
  /\ LoupeCorner # calculateLoupeTopLeftPosition(drawing.loupeState.position, "top-left")

\* a candidate that passed its test reaches beyond the window's left edge
\* before the corner is brought back
C34_PassedButOverReached ==
  /\ obs.event = "startAdjustMode"
  /\ drawing.loupeState.visible
  /\ SomeFits(drawing.loupeState.position)
  /\ RLt(calculateLoupeTopLeftPosition(drawing.loupeState.position,
                                       drawing.loupeState.relativePosition).x, R(0))

(* --------------------- what a release evaluates as a tap --------------- *)

\* the last event was the release of a finger whose gesture the editor had
\* accepted and classified into one of the given touch modes
ReleasedIn(modes) ==
  obs.event = "touchEnd" /\ obs.g.accepted /\ obs.modeAtRelease \in modes

\* the release cycled no thickness and evaluated no double tap
NoTapSemantics ==
  obs.cycles = 0 /\ ~obs.dblChecked /\ ~obs.zoomStarted

\* the gesture has left classification: the loupe is shown (positioning), or
\* the touch mode is panning, drawing or the moving of a stroke
LeftClassification ==
  \/ drawing.loupeState.visible
  \/ touch.currentMode \in {"move", "draw", "moveLine"}

\* C35: a gesture that has entered positioning (loupe shown), panning,
\* drawing or the moving of a stroke triggers neither a thickness cycle nor
\* a double-tap zoom when it is released.
C35_NoTapAfterClassification ==
  [][ (obs'.event = "touchEnd" /\ obs'.g.accepted /\ LeftClassification) =>
        NoTapSemantics' ]_vars

\* what holds: a release in panning or drawing is no tap
C35_NoTapAfterMoveOrDraw ==
  ReleasedIn({"move", "draw"}) => NoTapSemantics

\* a finger released after the loupe was shown has started the zoom toggle
C35_ZoomAfterLoupeReached ==
  ReleasedIn({"adjust"}) /\ obs.tap /\ obs.dblChecked /\ obs.zoomStarted

\* a finger that went down on a stroke, was classified and selected it, has
\* cycled the stroke's thickness at its release
C35_CycleAfterSelectReached ==
  ReleasedIn({"adjust"}) /\ obs.g.fired /\ obs.tap /\ obs.onStroke /\ obs.cycles = 1

(* ------------------------ an animation comes to its end ---------------- *)

\* the gestures, wheel notches and resets of one run
MaxAnimOps == 4

AnimBudget == pointer.gestures + pointer.wheels + pointer.resets < MaxAnimOps

NextAnim ==
  \/ ImageLoad(ViewImageSizes)
  \/ AnimBudget /\ TouchStart(ViewXs)
  \/ TouchEnd
  \/ AnimBudget /\ NoContact /\ Wheel(WheelDeltas, WheelXs)
  \/ AnimBudget /\ NoContact /\ ResetView
  \/ Ready /\ NoContact /\ CloseImage
  \/ Tick
  \/ FireTimer
  \/ RunFrame

\* RunFrame is enabled exactly when a requested callback has not run in the
\* current frame, and after it none is left so
FramePending == rafQueue # <<>> /\ ~FramesDone

\* the browser lets time pass and runs every requested frame and every due
\* timer callback (weak fairness of RunFrame and FireTimer, written with
\* their enabling conditions); the user's events are under no obligation
SpecAnim ==
  /\ Init /\ [][NextAnim]_vars
  /\ WF_vars(Tick)
  /\ []<>(~FramePending)
  /\ []<>(~TimerDue)

\* the requested callbacks of animateToTarget
AnimateFrames == SelectSeq(rafQueue, LAMBDA f : f.kind = "animate")

\* the step is the frame in which a running animation ends
AnimationEnds ==
  /\ obs'.event = "frame"
  /\ zoomPan.isAnimating /\ ~zoomPan'.isAnimating

\* while isAnimating is set a callback of the animation is requested
C36_AnimationScheduled ==
  zoomPan.isAnimating => AnimateFrames # <<>>

\* C36: every started animation ends after finitely many frames with scale
\* and offset equal to the requested target and isAnimating false: the frame
\* in which isAnimating becomes false leaves the viewport at the target.
C36_EndsAtTarget ==
  [][ AnimationEnds =>
        /\ AnimateFrames # <<>>
        /\ zoomPan'.scale = AnimateFrames[Len(AnimateFrames)].targetScale
        /\ zoomPan'.position = AnimateFrames[Len(AnimateFrames)].targetPosition ]_vars

\* what holds of the target: the last frame of an animation leaves scale and
\* offset at the target when no other callback runs in that frame
C36_EndsAtTargetAlone ==
  [][ (AnimationEnds /\ \A i \in 1..Len(rafQueue) : rafQueue[i].kind = "animate") =>
        /\ AnimateFrames # <<>>
        /\ zoomPan'.scale = AnimateFrames[Len(AnimateFrames)].targetScale
        /\ zoomPan'.position = AnimateFrames[Len(AnimateFrames)].targetPosition ]_vars

\* a wheel notch that arrived during the animation has moved the viewport
\* off the target in the frame in which the animation ended
C36_WheelAtEndReached ==
  /\ obs.event = "frame" /\ ~zoomPan.isAnimating /\ zoomPan.isInitialized
  /\ Len(obs.frames) = 2
  /\ obs.frames[1].kind = "animate" /\ obs.frames[2].kind = "wheel"

\* what holds of the termination: every started animation terminates: isAnimating becomes false again
C36_AnimationTerminates ==
  zoomPan.isAnimating ~> ~zoomPan.isAnimating

\* an animation has just ended in its last frame
C36_Witness ==
  /\ obs.event = "frame" /\ ~zoomPan.isAnimating /\ zoomPan.isInitialized
  /\ \E i \in 1..Len(obs.frames) : obs.frames[i].kind = "animate"

\* C36, for closeImage: an image closed in the middle of an animation leaves
\* neither the flag nor a requested callback
C36_CloseCancels ==
  [][ (obs'.event = "closeImage" /\ zoomPan.isAnimating) =>
        (~zoomPan'.isAnimating /\ rafQueue' = <<>>) ]_vars

(* ------------------- the stroke list and the history cursor ------------ *)

\* the stroke list is the snapshot at the history cursor
LinesAtCursor ==
  /\ drawing.historyIndex + 1 \in 1..Len(drawing.linesHistory)
  /\ drawing.lines = drawing.linesHistory[drawing.historyIndex + 1]

\* C37: whenever no stroke drag is in progress, the stroke list equals the
\* snapshot at the history cursor; a stroke moved with the mouse or by touch
\* is never left in a position that no snapshot records.
C37_LinesAtCursor ==
  (NoContactDown /\ ~drawing.isDrawing) => LinesAtCursor

\* what holds: the same for the calls of the hook, one per render
C37_HookLinesAtCursor == LinesAtCursor

\* the mouse button is up and the stroke it dragged lies where no snapshot
\* has it, with the cursor on a snapshot
C37_MovedUnrecordedReached ==
  /\ obs.event = "mouseUp" /\ NoContactDown
  /\ drawing.historyIndex + 1 \in 1..Len(drawing.linesHistory)
  /\ Len(drawing.lines) = Len(drawing.linesHistory[drawing.historyIndex + 1])
  /\ drawing.lines # drawing.linesHistory[drawing.historyIndex + 1]
  /\ \A i \in 1..Len(drawing.linesHistory) : drawing.linesHistory[i] # drawing.lines

(* -------------------------- the selected stroke ------------------------ *)

\* C38: whenever selectedLineIndex is not null it is an index into the
\* current stroke list; dragLine and stopDraggingLine never read a stroke
\* that no longer exists.
C38_SelectionValid ==
  /\ drawing.selectedLineIndex # NoIndex =>
        drawing.selectedLineIndex \in 0..(Len(drawing.lines) - 1)
  /\ obs.event \in {"mouseMove", "touchMove", "mouseUp", "touchEnd"} => ~obs.threw

\* its first half alone
C38_SelectionInList ==
  drawing.selectedLineIndex # NoIndex =>
    drawing.selectedLineIndex \in 0..(Len(drawing.lines) - 1)

\* its second half alone
C38_NoMissingStrokeRead ==
  obs.event \in {"mouseMove", "touchMove", "mouseUp", "touchEnd"} => ~obs.threw

(* --------------------- the user and the detector ----------------------- *)

\* C39: the strokes of a detection are appended to the stroke list and the
\* cursor current at that moment: what the user committed or undid while the
\* detection or its animation was in flight is in the list and the history
\* after the append.
C39_NoLostUpdate ==
  [][ obs'.event = "linesAdd" =>
        /\ drawing'.lines = drawing.lines \o obs'.batch
        /\ drawing'.historyIndex = drawing.historyIndex + 1
        /\ Len(drawing'.linesHistory) = drawing.historyIndex + 2
        /\ Len(drawing.linesHistory) >= drawing.historyIndex + 1
        /\ SubSeq(drawing'.linesHistory, 1, drawing.historyIndex + 1)
             = SubSeq(drawing.linesHistory, 1, drawing.historyIndex + 1)
        /\ drawing'.linesHistory[drawing.historyIndex + 2] = drawing'.lines ]_vars

\* what the code does: the batch is appended to the stroke list of the
\* render in which the detect button was clicked
C39_AppendToListOfClick ==
  [][ obs'.event = "linesAdd" =>
        \E i \in 1..Len(faceDetection.calls) :
           /\ faceDetection.calls[i].stage = "animate"
           /\ faceDetection.calls[i].batch = obs'.batch
           /\ drawing'.lines = faceDetection.calls[i].d.lines \o obs'.batch ]_vars

(* ------------------------ a detection comes back ----------------------- *)

\* the step is the return of detectFaces from its awaits: the promise of
\* detector.detect is settled and the call goes on to its end or, with
\* strokes to add, to the animation
DetectReturns ==
  /\ obs'.event \in {"detectResolved", "detectRejected"}
  /\ \/ Len(faceDetection'.calls) < Len(faceDetection.calls)
     \/ \E i \in 1..Len(faceDetection.calls) :
          /\ Len(faceDetection'.calls) = Len(faceDetection.calls)
          /\ faceDetection.calls[i].stage = "detect"
          /\ faceDetection'.calls[i].stage = "animate"

\* C40: every detectFaces call leaves isDetecting = false and isScanning =
\* false on every return path: no faces, image size unavailable, no valid
\* thickness options, no eye lines, only duplicates, append, and error.
C40_FlagsCleared ==
  [][ DetectReturns =>
        (~faceDetection'.isDetecting /\ ~faceDetection'.isScanning) ]_vars

\* what holds: the flags are cleared when detect() is rejected, when it
\* finds no face and when there are strokes to add
C40_FlagsClearedOnSomePaths ==
  [][ ( /\ DetectReturns
        /\ \/ obs'.event = "detectRejected"
           \/ faceDetection'.showNoFace /\ ~faceDetection.showNoFace
           \/ Len(faceDetection'.calls) = Len(faceDetection.calls) ) =>
        (~faceDetection'.isDetecting /\ ~faceDetection'.isScanning) ]_vars

\* no call is in flight and the flags are set: the detect button stays
\* disabled
C40_StuckReached ==
  /\ obs.event = "detectResolved"
  /\ faceDetection.calls = <<>>
  /\ faceDetection.isDetecting /\ faceDetection.isScanning

====
